---- MODULE Spec2Model ----
(***************************************************************************)
(* PanagoreTrades: the dashboard's process-wide state (app.py), the        *)
(* warehouse valuation engine (warehouse_manager.py) and the ESI client    *)
(* (ESI_LocalHost_Access.py) as a state machine.                           *)
(*                                                                         *)
(* Spec    : the HTTP handlers of app.py acting on the module globals.     *)
(* SpecWM  : the methods of one WarehouseManager / ESIClient pair called   *)
(*           directly, the remote services drawn from bounded sets.        *)
(* SpecConc: two server threads running the caching handlers and the       *)
(*           token check statement by statement.                           *)
(* SpecLedger: the transaction fetches, the cost basis and the realized    *)
(*           profit of one manager.                                        *)
(* SpecFees: the fee-rate and fee-adjusted price methods of one manager.   *)
(* SpecScan: the two filters of the price-delta scanner, the live          *)
(*           endpoint's and the standalone report's (TradeHub_API.py).     *)
(* SpecCycle: analyze_all_warehouses stage by stage.                       *)
(* SpecItems: analyze_warehouse_hub over listings of several items.        *)
(* SpecAuth: generate_auth_url and the OAuth callback handler.             *)
(*                                                                         *)
(* Python's None is the empty tuple, a present value x is <<x>>.           *)
(* Times are seconds since the process started.                            *)
(***************************************************************************)
EXTENDS Integers, Sequences, FiniteSets, TLC

VARIABLES
    now,                        \* the wall clock, datetime.now()
    remote,                     \* what the remote services answer
    esi,                        \* the fields of the singleton ESIClient
    warehouse_manager,          \* "None", "NoClient" or "Client" (app.py global)
    trading_skills,             \* WarehouseManager.trading_skills
    transactions_cache,         \* WarehouseManager.transactions_cache
    orders_cache,               \* WarehouseManager.orders_cache
    trade_data_cache,           \* app.py global
    cache_timestamp,            \* app.py global
    warehouse_cache,            \* app.py global
    warehouse_cache_timestamp,  \* app.py global
    last,                       \* the last call: its arguments, result and requests sent
    threads                     \* the requests in progress, one per server thread

vars == <<now, remote, esi, warehouse_manager, trading_skills, transactions_cache,
          orders_cache, trade_data_cache, cache_timestamp, warehouse_cache,
          warehouse_cache_timestamp, last, threads>>

None == <<>>
Some(x) == <<x>>

Range(s) == {s[i] : i \in 1..Len(s)}

\* "w = v" followed by the statements F that read w: v is computed once.
With(v, F(_)) == CHOOSE y \in {F(w) : w \in {v}} : TRUE

\* ------------------------------------------------------------- bounds

\* The clock stops at MaxNow; it advances by one of TickSteps seconds at a time.
MaxNow == 600
TickSteps == {300}

\* The remote asset listing holds at most MaxAssets rows.
MaxAssets == 2

\* The fee methods are called with market prices of 1 to MaxPrice ISK.
MaxPrice == 10

\* In SpecItems the listing of a hub's station holds at most MaxItems asset rows.
MaxItems == 3

\* ------------------------------------------------------ configuration

CACHE_DURATION == 300
WAREHOUSE_CACHE_DURATION == 600
EXPIRES_IN == 1200

HubNames == <<"Jita", "Amarr", "Rens", "Dodixie", "Hek">>

station_id(hub) ==
    CASE hub = "Jita" -> 60003760
      [] hub = "Amarr" -> 60008494
      [] hub = "Rens" -> 60004588
      [] hub = "Dodixie" -> 60011866
      [] hub = "Hek" -> 60005686

region_id(hub) ==
    CASE hub = "Jita" -> 10000002
      [] hub = "Amarr" -> 10000043
      [] hub = "Rens" -> 10000030
      [] hub = "Dodixie" -> 10000032
      [] hub = "Hek" -> 10000042

trade_hubs == Range(HubNames)

\* ---------------------------------------------------------- ESIClient

\* is_authenticated: access_token and refresh_token and character_id.
is_authenticated(e) ==
    e.access_token # "" /\ e.refresh_token # "" /\ e.character_id # 0

\* The recorded expiry has passed: token_expires and token_expires <= now.
token_expired(e, t) == e.token_expires # None /\ e.token_expires[1] <= t

\* A request that carries e's access token, as the log of sent requests keeps it:
\* stale says that the token's recorded expiry had passed while a refresh token existed.
Request(endpoint, e, t) ==
    [endpoint |-> endpoint, auth |-> TRUE,
     stale |-> token_expired(e, t) /\ e.refresh_token # ""]

\* A request to a public endpoint (no Authorization header).
PublicRequest(endpoint) == [endpoint |-> endpoint, auth |-> FALSE, stale |-> FALSE]

\* refresh_access_token: [raised, esi].
refresh_access_token(e, t, r) ==
    IF e.refresh_token = "" THEN [raised |-> TRUE, esi |-> e]
    ELSE IF ~r.sso_up THEN [raised |-> TRUE, esi |-> e]
    ELSE [raised |-> FALSE,
          esi |-> [e EXCEPT !.access_token = "refreshed",
                            !.token_expires = Some(t + EXPIRES_IN)]]

\* _ensure_valid_token: [raised, esi].
ensure_valid_token(e, t, r) ==
    IF e.access_token = "" THEN [raised |-> TRUE, esi |-> e]
    ELSE IF token_expired(e, t) THEN refresh_access_token(e, t, r)
    ELSE [raised |-> FALSE, esi |-> e]

\* The remote API accepts a request: the endpoint is up and the token has not expired.
Accepted(e, t, r) == r.esi_up /\ ~token_expired(e, t)

\* make_esi_request: [raised, esi, sent]; the payload is the caller's to read from r.
make_esi_request(endpoint, e, t, r) ==
    With(ensure_valid_token(e, t, r), LAMBDA v :
        IF v.raised THEN [raised |-> TRUE, esi |-> v.esi, sent |-> {}]
        ELSE [raised |-> ~Accepted(v.esi, t, r), esi |-> v.esi,
              sent |-> {Request(endpoint, v.esi, t)}])

\* get_character_wallet: the validity check, then the request: [raised, esi, sent, ret].
get_character_wallet(e, t, r) ==
    With(ensure_valid_token(e, t, r), LAMBDA v :
        IF v.raised THEN [raised |-> TRUE, esi |-> v.esi, sent |-> {}, ret |-> None]
        ELSE With(Accepted(v.esi, t, r), LAMBDA ok :
                 [raised |-> ~ok, esi |-> v.esi,
                  sent |-> {Request("character_wallet", v.esi, t)},
                  ret |-> IF ok THEN Some(250000) ELSE None]))

\* --------------------------------------------------- WarehouseManager
\* A manager m is [has_client, esi, trading_skills, transactions_cache, orders_cache,
\* sent]: its fields, the client it shares with the dashboard, and the requests sent so
\* far by the running call. Every method below returns [m, ret] (and raised where the
\* method can raise).

SECONDS_PER_DAY == 24 * 60 * 60

\* Variant: any client counts, authenticated or not (used to test C8).
HasClient(m) == m.has_client

\* "not self.esi_client or not self.esi_client.is_authenticated()" is false.
HasAuth(m) == m.has_client /\ is_authenticated(m.esi)

Sent(m, reqs) == [m EXCEPT !.sent = @ \cup reqs]

hub_station_ids == {station_id(h) : h \in trade_hubs}

\* The hub whose station holds the asset: the first in the order of trade_hubs.
HubOfStation(loc) ==
    LET i == CHOOSE k \in 1..Len(HubNames) :
                 /\ station_id(HubNames[k]) = loc
                 /\ \A j \in 1..(k - 1) : station_id(HubNames[j]) # loc
    IN HubNames[i]

TagAsset(a, source) ==
    [type_id |-> a.type_id, location_id |-> a.location_id, quantity |-> a.quantity,
     trade_hub |-> HubOfStation(a.location_id), asset_source |-> source]

InHubStation(a) == a.location_id \in hub_station_ids

\* The assets at the configured hubs' stations, each tagged with its hub and source.
FilterAssets(assets, source) ==
    LET kept == SelectSeq(assets, InHubStation)
    IN [i \in 1..Len(kept) |-> TagAsset(kept[i], source)]

\* The asset fetches send the request themselves, without _ensure_valid_token.
FetchAssets(m, t, r, endpoint, source) ==
    IF ~HasAuth(m) THEN [m |-> m, ret |-> <<>>]
    ELSE LET m1 == Sent(m, {Request(endpoint, m.esi, t)}) IN
         IF ~Accepted(m.esi, t, r) THEN [m |-> m1, ret |-> <<>>]
         ELSE [m |-> m1, ret |-> FilterAssets(r.assets, source)]

get_character_assets(m, t, r) == FetchAssets(m, t, r, "character_assets", "character")

get_corporation_assets(m, t, r) ==
    FetchAssets(m, t, r, "corporation_assets", "corporation")

\* get_all_assets: corporation assets, then the character's when asked for.
get_all_assets(m, t, r, include_character) ==
    With(get_corporation_assets(m, t, r), LAMBDA corp :
        IF include_character
        THEN With(get_character_assets(corp.m, t, r), LAMBDA char :
                 [m |-> char.m, ret |-> corp.ret \o char.ret])
        ELSE corp)

\* get_character_orders: the character's open orders; orders_cache keeps them.
get_character_orders(m, t, r) ==
    IF ~HasAuth(m) THEN [m |-> m, ret |-> <<>>]
    ELSE With(make_esi_request("character_orders", m.esi, t, r), LAMBDA q :
         With(Sent([m EXCEPT !.esi = q.esi], q.sent), LAMBDA m1 :
             IF q.raised THEN [m |-> m1, ret |-> <<>>]
             ELSE [m |-> [m1 EXCEPT !.orders_cache = Some(r.orders)], ret |-> r.orders]))

\* The corporation has wallet divisions 1 to 7; the request names one of them.
DivisionExists(division) == division \in 1..7

\* The transactions of a wallet division: the remote keeps them all in division 1.
DivisionTransactions(r, division) == IF division = 1 THEN r.txns ELSE <<>>

\* The tail both transaction fetches share: [m, ret, failed]. A failed request
\* answers empty; a non-empty answer replaces transactions_cache by its rows of the
\* last days_back days; an empty answer leaves transactions_cache as it was.
FetchTransactions(m, t, q, rows, days_back) ==
    With(Sent([m EXCEPT !.esi = q.esi], q.sent), LAMBDA m1 :
        LET InWindow(x) == x.date >= t - days_back * SECONDS_PER_DAY
        IN IF q.raised THEN [m |-> m1, ret |-> <<>>, failed |-> TRUE]
           ELSE IF rows = <<>> THEN [m |-> m1, ret |-> <<>>, failed |-> FALSE]
           ELSE With(SelectSeq(rows, InWindow), LAMBDA recent :
                    [m |-> [m1 EXCEPT !.transactions_cache = Some(recent)],
                     ret |-> recent, failed |-> FALSE]))

\* get_character_transactions: [m, ret, failed].
get_character_transactions(m, t, r, days_back) ==
    IF ~HasAuth(m) THEN [m |-> m, ret |-> <<>>, failed |-> TRUE]
    ELSE With(make_esi_request("character_transactions", m.esi, t, r), LAMBDA q :
             FetchTransactions(m, t, q, r.char_txns, days_back))

\* get_corporation_transactions: [m, ret, failed].
get_corporation_transactions(m, t, r, days_back, division) ==
    IF ~HasAuth(m) THEN [m |-> m, ret |-> <<>>, failed |-> TRUE]
    ELSE With(make_esi_request("corporation_transactions", m.esi, t, r), LAMBDA q :
             FetchTransactions(m, t,
                               [q EXCEPT !.raised = q.raised \/ ~DivisionExists(division)],
                               DivisionTransactions(r, division), days_back))

\* get_all_transactions(asset_source = 'corporation').
get_all_transactions(m, t, r, days_back) ==
    get_corporation_transactions(m, t, r, days_back, 1)

\* get_corporation_contracts of ESI_LocalHost_Access: one authenticated request.
get_corporation_contracts(e, t, r) == make_esi_request("corporation_contracts", e, t, r)

ZeroCourierMetrics ==
    [total_contracts |-> 0, courier_contracts |-> 0, outstanding_contracts |-> 0,
     in_progress_contracts |-> 0]

\* get_courier_contracts('corporation'): the remote holds no contracts.
get_courier_contracts(m, t, r) ==
    IF ~HasAuth(m) THEN [m |-> m, ret |-> ZeroCourierMetrics]
    ELSE With(get_corporation_contracts(m.esi, t, r), LAMBDA q :
             [m |-> Sent([m EXCEPT !.esi = q.esi], q.sent), ret |-> ZeroCourierMetrics])

\* ----------------------------------------------------------- Fee model
\* Rates are in hundredths of a percent (3.0% is 300). Prices of the order book are
\* whole ISK; a fee-adjusted price is kept in units of 1/10000 ISK, where the
\* multiplication by a rate is exact. Averages (a quotient in the source's floats)
\* are the quotient rounded down.

Max(a, b) == IF a >= b THEN a ELSE b
Min(a, b) == IF a <= b THEN a ELSE b

\* calculate_broker_fee_rate: max(3.0 - 0.1 * level, 2.5).
calculate_broker_fee_rate(skills) == Max(300 - 10 * skills["broker_relations"], 250)

\* Variant: the sales tax without its floor (used to test C18).
calculate_sales_tax_rate_unfloored(skills) == 800 - 88 * skills["accounting"]

\* calculate_sales_tax_rate: max(8.0 * (1 - 0.11 * level), 4.5).
calculate_sales_tax_rate(skills) == Max(800 - 88 * skills["accounting"], 450)

\* calculate_effective_buy_price, of a price in whole ISK, in 1/10000 ISK.
calculate_effective_buy_price(price, skills) ==
    price * 10000 + price * calculate_broker_fee_rate(skills)

\* Variant: a sell price from which no fee is deducted (used to test C19).
calculate_effective_sell_price_gross(price, skills) == price * 10000

\* calculate_effective_sell_price, of a price in whole ISK, in 1/10000 ISK.
calculate_effective_sell_price(price, skills) ==
    price * 10000
      - (price * calculate_sales_tax_rate(skills) + price * calculate_broker_fee_rate(skills))

\* round(x, 2) of an amount in 1/10000 ISK: the nearest hundredth of an ISK, in
\* hundredths, ties to the even one.
Round2(x) ==
    LET q == x \div 100
        rem == x % 100
    IN IF rem > 50 \/ (rem = 50 /\ q % 2 = 1) THEN q + 1 ELSE q

RECURSIVE SumSeq(_)
SumSeq(s) == IF s = <<>> THEN 0 ELSE s[1] + SumSeq(Tail(s))

\* ------------------------------------------------------- Market prices

\* The order book the remote market answers for a type, the same in every region.
OrderBook(type_id) ==
    CASE type_id = 34 ->
           << [price |-> 90, volume_remain |-> 2, is_buy_order |-> TRUE],
              [price |-> 100, volume_remain |-> 1, is_buy_order |-> FALSE],
              [price |-> 120, volume_remain |-> 3, is_buy_order |-> FALSE] >>
      [] type_id = 35 ->
           << [price |-> 40, volume_remain |-> 1, is_buy_order |-> TRUE],
              [price |-> 60, volume_remain |-> 4, is_buy_order |-> TRUE],
              [price |-> 50, volume_remain |-> 0, is_buy_order |-> FALSE] >>
      [] OTHER -> <<>>

IsActiveBuy(o) == o.is_buy_order /\ o.volume_remain > 0
IsActiveSell(o) == ~o.is_buy_order /\ o.volume_remain > 0

\* list.sort(key = price), stable: insertion of each order behind its equals.
RECURSIVE SortByPrice(_, _)
SortByPrice(orders, descending) ==
    IF orders = <<>> THEN <<>>
    ELSE LET rest == SortByPrice(SubSeq(orders, 1, Len(orders) - 1), descending)
             o == orders[Len(orders)]
             Before(x) == IF descending THEN x.price >= o.price ELSE x.price <= o.price
             k == Cardinality({i \in 1..Len(rest) : Before(rest[i])})
         IN SubSeq(rest, 1, k) \o <<o>> \o SubSeq(rest, k + 1, Len(rest))

Take(s, n) == SubSeq(s, 1, Min(n, Len(s)))

TotalVolume(orders) == SumSeq([i \in 1..Len(orders) |-> orders[i].volume_remain])
WeightedSum(orders) ==
    SumSeq([i \in 1..Len(orders) |-> orders[i].price * orders[i].volume_remain])

\* One entry of get_market_prices, from the order book of the type.
PriceEntry(orders) ==
    LET buy_orders == SortByPrice(SelectSeq(orders, IsActiveBuy), TRUE)
        sell_orders == SortByPrice(SelectSeq(orders, IsActiveSell), FALSE)
        top == Take(buy_orders, 10)
    IN [avg_buy_price |-> IF TotalVolume(top) > 0
                          THEN WeightedSum(top) \div TotalVolume(top) ELSE 0,
        min_sell_price |-> IF sell_orders # <<>> THEN sell_orders[1].price ELSE 0,
        buy_orders_count |-> Len(buy_orders),
        sell_orders_count |-> Len(sell_orders)]

EmptyPrices == [x \in {} |-> 0]

\* The loop of get_market_prices from the i-th type on: [raised, prices].
RECURSIVE MarketPricesLoop(_, _, _, _)
MarketPricesLoop(type_ids, i, prices, r) ==
    IF i > Len(type_ids) THEN [raised |-> FALSE, prices |-> prices]
    ELSE IF type_ids[i] \in r.market_down THEN [raised |-> TRUE, prices |-> prices]
    ELSE MarketPricesLoop(type_ids, i + 1,
             (type_ids[i] :> PriceEntry(OrderBook(type_ids[i]))) @@ prices, r)

\* get_market_prices: type_id -> entry; the try encloses the whole loop, and its
\* handler returns the empty map.
get_market_prices(region, type_ids, r) ==
    LET l == MarketPricesLoop(type_ids, 1, EmptyPrices, r)
    IN IF l.raised THEN EmptyPrices ELSE l.prices

\* get_market_depth_analysis: None when the fetch fails.
get_market_depth_analysis(region, type_id, r) ==
    IF type_id \in r.market_down THEN None
    ELSE LET orders == OrderBook(type_id)
             buy_orders == SortByPrice(SelectSeq(orders, IsActiveBuy), TRUE)
             sell_orders == SortByPrice(SelectSeq(orders, IsActiveSell), FALSE)
             best_buy == IF buy_orders # <<>> THEN buy_orders[1].price ELSE 0
             best_sell == IF sell_orders # <<>> THEN sell_orders[1].price ELSE 0
             top_sells == Take(sell_orders, 5)
         IN Some([best_buy_price |-> best_buy,
                  best_sell_price |-> best_sell,
                  total_buy_orders |-> Len(buy_orders),
                  total_sell_orders |-> Len(sell_orders),
                  spread_percentage |->
                      IF best_buy > 0 /\ best_sell > 0
                      THEN ((best_sell - best_buy) * 10000) \div best_sell ELSE 0,
                  realistic_sell_price |->
                      IF sell_orders # <<>>
                      THEN WeightedSum(top_sells) \div TotalVolume(top_sells)
                      ELSE 0])

\* ---------------------------------------------------------- Cost basis

\* Variant: the average taken over sales as well as purchases (used to test C17).
calculate_cost_basis_any_side(m, type_id, location_id) ==
    IF m.transactions_cache = None \/ m.transactions_cache = Some(<<>>) THEN None
    ELSE LET Matches(x) == /\ x.type_id = type_id
                           /\ (location_id # 0 => x.location_id = location_id)
             rows == SelectSeq(m.transactions_cache[1], Matches)
             total_cost == SumSeq([i \in 1..Len(rows) |-> rows[i].unit_price * rows[i].quantity])
             total_quantity == SumSeq([i \in 1..Len(rows) |-> rows[i].quantity])
         IN IF rows = <<>> \/ total_quantity = 0 THEN None
            ELSE Some([average_cost |-> total_cost \div total_quantity,
                       total_purchased |-> total_quantity,
                       total_cost |-> total_cost,
                       purchase_count |-> Len(rows)])

\* calculate_cost_basis over transactions_cache: None, or the average cost (rounded
\* down to whole ISK) with the totals of the buy rows it was taken from.
calculate_cost_basis(m, type_id, location_id) ==
    IF m.transactions_cache = None \/ m.transactions_cache = Some(<<>>) THEN None
    ELSE LET Matches(x) == /\ x.type_id = type_id
                           /\ x.is_buy
                           /\ (location_id # 0 => x.location_id = location_id)
             rows == SelectSeq(m.transactions_cache[1], Matches)
             total_cost == SumSeq([i \in 1..Len(rows) |-> rows[i].unit_price * rows[i].quantity])
             total_quantity == SumSeq([i \in 1..Len(rows) |-> rows[i].quantity])
         IN IF rows = <<>> \/ total_quantity = 0 THEN None
            ELSE Some([average_cost |-> total_cost \div total_quantity,
                       total_purchased |-> total_quantity,
                       total_cost |-> total_cost,
                       purchase_count |-> Len(rows)])

\* -------------------------------------------------------- Open orders

\* analyze_active_orders: the counts and the ISK committed to buy orders at a station.
analyze_active_orders(station, orders) ==
    LET AtStation(o) == o.location_id = station
        IsBuy(o) == o.is_buy_order
        IsSell(o) == ~o.is_buy_order
        station_orders == SelectSeq(orders, AtStation)
        buys == SelectSeq(station_orders, IsBuy)
    IN [buy_orders |-> Len(buys),
        sell_orders |-> Len(SelectSeq(station_orders, IsSell)),
        total_isk_in_orders |->
            SumSeq([i \in 1..Len(buys) |-> buys[i].price * buys[i].volume_remain])]

\* get_item_orders: the ids of the open orders for one type at one location.
get_item_orders(type_id, location_id, orders) ==
    LET Mine(o) == o.type_id = type_id /\ o.location_id = location_id
        IsBuy(o) == o.is_buy_order
        IsSell(o) == ~o.is_buy_order
        item_orders == SelectSeq(orders, Mine)
        Ids(x) == [i \in 1..Len(x) |-> x[i].order_id]
    IN [buy_orders |-> Ids(SelectSeq(item_orders, IsBuy)),
        sell_orders |-> Ids(SelectSeq(item_orders, IsSell))]

\* ------------------------------------------------------ Hub analysis

\* The distinct type ids of the assets, list(set(...)), in order of first appearance.
RECURSIVE TypeIds(_)
TypeIds(assets) ==
    IF assets = <<>> THEN <<>>
    ELSE LET rest == TypeIds(SubSeq(assets, 1, Len(assets) - 1))
             x == assets[Len(assets)].type_id
         IN IF x \in Range(rest) THEN rest ELSE Append(rest, x)

\* Variant: the item analysis with the profit clamped at zero (used to test C25).
ItemAnalysisClamped(m, r, hub_name, asset, market_prices, orders, enhanced) ==
    LET type_id == asset.type_id
        quantity == asset.quantity[1]
        location_id == asset.location_id
        has_price == type_id \in DOMAIN market_prices
        market_avg_buy_price == IF has_price THEN market_prices[type_id].avg_buy_price ELSE 0
        min_sell_price == IF has_price THEN market_prices[type_id].min_sell_price ELSE 0
    IN With(IF enhanced THEN get_market_depth_analysis(region_id(hub_name), type_id, r)
            ELSE None, LAMBDA market_depth :
       With(IF enhanced THEN calculate_cost_basis(m, type_id, location_id) ELSE None,
            LAMBDA cost_basis :
       With(IF market_depth # None THEN market_depth[1].realistic_sell_price
            ELSE min_sell_price, LAMBDA realistic_sell_price :
       With(IF cost_basis # None THEN cost_basis[1].average_cost
            ELSE market_avg_buy_price, LAMBDA actual_cost_per_unit :
       With(calculate_effective_sell_price(realistic_sell_price, m.trading_skills),
            LAMBDA effective_sell_price :
       With(calculate_effective_buy_price(actual_cost_per_unit, m.trading_skills),
            LAMBDA actual_effective_cost :
           [type_id |-> type_id,
            quantity |-> quantity,
            location_id |-> location_id,
            avg_buy_price |-> actual_cost_per_unit,
            min_sell_price |-> min_sell_price,
            realistic_sell_price |-> realistic_sell_price,
            has_cost_basis |-> cost_basis # None,
            effective_sell_price |-> effective_sell_price,
            actual_effective_cost |-> actual_effective_cost,
            current_value_raw |-> effective_sell_price * quantity,
            actual_value_raw |->
                Max(0, (effective_sell_price - actual_effective_cost) * quantity),
            current_value |-> Round2(effective_sell_price * quantity),
            actual_profit |->
                Round2(Max(0, (effective_sell_price - actual_effective_cost) * quantity)),
            buy_orders_available |->
                IF has_price THEN market_prices[type_id].buy_orders_count ELSE 0,
            sell_orders_available |->
                IF has_price THEN market_prices[type_id].sell_orders_count ELSE 0,
            active_orders |-> get_item_orders(type_id, location_id, orders)]))))))

\* One item of a hub report. Amounts named *_price are whole ISK; effective prices
\* are in 1/10000 ISK; current_value and actual_profit are round(x, 2), in 1/100 ISK.
ItemAnalysis(m, r, hub_name, asset, market_prices, orders, enhanced) ==
    LET type_id == asset.type_id
        quantity == asset.quantity[1]
        location_id == asset.location_id
        has_price == type_id \in DOMAIN market_prices
        market_avg_buy_price == IF has_price THEN market_prices[type_id].avg_buy_price ELSE 0
        min_sell_price == IF has_price THEN market_prices[type_id].min_sell_price ELSE 0
    IN With(IF enhanced THEN get_market_depth_analysis(region_id(hub_name), type_id, r)
            ELSE None, LAMBDA market_depth :
       With(IF enhanced THEN calculate_cost_basis(m, type_id, location_id) ELSE None,
            LAMBDA cost_basis :
       With(IF market_depth # None THEN market_depth[1].realistic_sell_price
            ELSE min_sell_price, LAMBDA realistic_sell_price :
       With(IF cost_basis # None THEN cost_basis[1].average_cost
            ELSE market_avg_buy_price, LAMBDA actual_cost_per_unit :
       With(calculate_effective_sell_price(realistic_sell_price, m.trading_skills),
            LAMBDA effective_sell_price :
       With(calculate_effective_buy_price(actual_cost_per_unit, m.trading_skills),
            LAMBDA actual_effective_cost :
           [type_id |-> type_id,
            quantity |-> quantity,
            location_id |-> location_id,
            avg_buy_price |-> actual_cost_per_unit,
            min_sell_price |-> min_sell_price,
            realistic_sell_price |-> realistic_sell_price,
            has_cost_basis |-> cost_basis # None,
            effective_sell_price |-> effective_sell_price,
            actual_effective_cost |-> actual_effective_cost,
            current_value_raw |-> effective_sell_price * quantity,
            actual_value_raw |-> (effective_sell_price - actual_effective_cost) * quantity,
            current_value |-> Round2(effective_sell_price * quantity),
            actual_profit |->
                Round2((effective_sell_price - actual_effective_cost) * quantity),
            buy_orders_available |->
                IF has_price THEN market_prices[type_id].buy_orders_count ELSE 0,
            sell_orders_available |->
                IF has_price THEN market_prices[type_id].sell_orders_count ELSE 0,
            active_orders |-> get_item_orders(type_id, location_id, orders)]))))))

\* Variant: a sort that puts an item in front of the items it ties with (used to
\* test C24).
RECURSIVE SortByProfitTiesReversed(_)
SortByProfitTiesReversed(items) ==
    IF items = <<>> THEN <<>>
    ELSE LET rest == SortByProfitTiesReversed(SubSeq(items, 1, Len(items) - 1))
             x == items[Len(items)]
             k == Cardinality({i \in 1..Len(rest) : rest[i].actual_profit > x.actual_profit})
         IN SubSeq(rest, 1, k) \o <<x>> \o SubSeq(rest, k + 1, Len(rest))

\* analyzed_items.sort(key = actual_profit, reverse = True), stable.
RECURSIVE SortByProfit(_)
SortByProfit(items) ==
    IF items = <<>> THEN <<>>
    ELSE LET rest == SortByProfit(SubSeq(items, 1, Len(items) - 1))
             x == items[Len(items)]
             k == Cardinality({i \in 1..Len(rest) : rest[i].actual_profit >= x.actual_profit})
         IN SubSeq(rest, 1, k) \o <<x>> \o SubSeq(rest, k + 1, Len(rest))

\* A hub report. kind tells which of the three shapes the source builds: "empty" (no
\* assets at the hub), "full", or "error" (the entry analyze_all_warehouses stores for
\* a hub whose analysis raised). enhanced_analysis is None where the shape has no such key.
HubReport(kind, hub_name, items, theoretical, actual, summary, enhanced) ==
    [kind |-> kind,
     hub_name |-> hub_name,
     error |-> kind = "error",
     total_items |-> Len(items),
     total_theoretical_value |-> theoretical,
     total_actual_value |-> actual,
     isk_in_orders |-> summary.total_isk_in_orders,
     items |-> items,
     active_orders_summary |-> summary,
     enhanced_analysis |-> enhanced]

NoOrdersSummary == [buy_orders |-> 0, sell_orders |-> 0, total_isk_in_orders |-> 0]

\* Variant: the analysis without the early return for a hub that holds no assets
\* (used to test C22).
analyze_warehouse_hub_unguarded(m, t, r, hub_name, use_enhanced_analysis) ==
    IF hub_name \notin trade_hubs THEN [m |-> m, raised |-> TRUE, ret |-> None]
    ELSE
    LET AtHub(x) == x.trade_hub = hub_name IN
    With(get_all_assets(m, t, r, FALSE), LAMBDA a :
    With(SelectSeq(a.ret, AtHub), LAMBDA hub_assets :
    With(IF use_enhanced_analysis THEN get_all_transactions(a.m, t, r, 30)
         ELSE [m |-> a.m, ret |-> <<>>], LAMBDA tx :
    With(IF use_enhanced_analysis THEN get_character_orders(tx.m, t, r)
         ELSE [m |-> tx.m, ret |-> <<>>], LAMBDA od :
        With(Sent(od.m, {PublicRequest("market_orders")}), LAMBDA m4 :
            IF \E i \in 1..Len(hub_assets) : hub_assets[i].quantity = None
            THEN [m |-> m4, raised |-> TRUE, ret |-> None]
            ELSE
            With(get_market_prices(region_id(hub_name), TypeIds(hub_assets), r),
                 LAMBDA market_prices :
            With([i \in 1..Len(hub_assets) |->
                     ItemAnalysis(m4, r, hub_name, hub_assets[i], market_prices, od.ret,
                                  use_enhanced_analysis)], LAMBDA analyzed :
                LET total_value ==
                        SumSeq([i \in 1..Len(analyzed) |-> analyzed[i].current_value_raw])
                    total_actual_value ==
                        SumSeq([i \in 1..Len(analyzed) |-> analyzed[i].actual_value_raw])
                IN [m |-> m4, raised |-> FALSE,
                    ret |-> Some(HubReport("full", hub_name, SortByProfit(analyzed),
                                           Round2(total_value), Round2(total_actual_value),
                                           analyze_active_orders(station_id(hub_name), od.ret),
                                           Some(use_enhanced_analysis)))])))))))

\* analyze_warehouse_hub: [m, raised, ret].
analyze_warehouse_hub(m, t, r, hub_name, use_enhanced_analysis) ==
    IF hub_name \notin trade_hubs THEN [m |-> m, raised |-> TRUE, ret |-> None]
    ELSE
    LET AtHub(x) == x.trade_hub = hub_name IN
    With(get_all_assets(m, t, r, FALSE), LAMBDA a :
    With(SelectSeq(a.ret, AtHub), LAMBDA hub_assets :
    With(IF use_enhanced_analysis THEN get_all_transactions(a.m, t, r, 30)
         ELSE [m |-> a.m, ret |-> <<>>], LAMBDA tx :
    With(IF use_enhanced_analysis THEN get_character_orders(tx.m, t, r)
         ELSE [m |-> tx.m, ret |-> <<>>], LAMBDA od :
        IF hub_assets = <<>>
        THEN [m |-> od.m, raised |-> FALSE,
              ret |-> Some(HubReport("empty", hub_name, <<>>, 0, 0, NoOrdersSummary, None))]
        ELSE
        With(Sent(od.m, {PublicRequest("market_orders")}), LAMBDA m4 :
            IF \E i \in 1..Len(hub_assets) : hub_assets[i].quantity = None
            THEN [m |-> m4, raised |-> TRUE, ret |-> None]
            ELSE
            With(get_market_prices(region_id(hub_name), TypeIds(hub_assets), r),
                 LAMBDA market_prices :
            With([i \in 1..Len(hub_assets) |->
                     ItemAnalysis(m4, r, hub_name, hub_assets[i], market_prices, od.ret,
                                  use_enhanced_analysis)], LAMBDA analyzed :
                LET total_value ==
                        SumSeq([i \in 1..Len(analyzed) |-> analyzed[i].current_value_raw])
                    total_actual_value ==
                        SumSeq([i \in 1..Len(analyzed) |-> analyzed[i].actual_value_raw])
                IN [m |-> m4, raised |-> FALSE,
                    ret |-> Some(HubReport("full", hub_name, SortByProfit(analyzed),
                                           Round2(total_value), Round2(total_actual_value),
                                           analyze_active_orders(station_id(hub_name), od.ret),
                                           Some(use_enhanced_analysis)))])))))))

\* ---------------------------------------------------- Realized profit

ZeroProfit(days_back, error) ==
    [total_realized_profit |-> 0, total_sales_revenue |-> 0, total_cost_of_goods_sold |-> 0,
     total_fees_paid |-> 0, transactions_analyzed |-> 0, period_days |-> days_back,
     error |-> error]

\* calculate_actual_realized_profit: [m, ret]. It passes days_back where
\* get_corporation_transactions takes the division, and asks the manager for
\* get_item_cost_basis, which WarehouseManager does not define: the first sell
\* transaction raises, and the handler returns the zero record with the error.
calculate_actual_realized_profit(m, t, r, days_back) ==
    IF ~HasAuth(m) THEN [m |-> m, ret |-> ZeroProfit(days_back, FALSE)]
    ELSE With(make_esi_request("corporation_transactions", m.esi, t, r), LAMBDA q :
         With(Sent([m EXCEPT !.esi = q.esi], q.sent), LAMBDA m1 :
             LET IsSell(x) == ~x.is_buy
             IN IF q.raised \/ ~DivisionExists(days_back)
                THEN [m |-> m1, ret |-> ZeroProfit(days_back, TRUE)]
                ELSE IF SelectSeq(DivisionTransactions(r, days_back), IsSell) = <<>>
                THEN [m |-> m1, ret |-> ZeroProfit(days_back, FALSE)]
                ELSE [m |-> m1, ret |-> ZeroProfit(days_back, TRUE)]))

\* ------------------------------------------------- All-hub analysis

\* The entry stored for a hub whose analysis raised.
ErrorReport(hub_name, use_enhanced_analysis) ==
    HubReport("error", hub_name, <<>>, 0, 0, NoOrdersSummary, Some(use_enhanced_analysis))

\* Variant: the loop stops at the first hub whose analysis raises (used to test C5).
RECURSIVE AnalyzeHubsLoopAborting(_, _, _, _, _, _)
AnalyzeHubsLoopAborting(m, t, r, i, data, use_enhanced_analysis) ==
    IF i > Len(HubNames) THEN [m |-> m, data |-> data]
    ELSE With(analyze_warehouse_hub(m, t, r, HubNames[i], use_enhanced_analysis),
              LAMBDA h :
             IF h.raised
             THEN [m |-> h.m,
                   data |-> (HubNames[i] :> ErrorReport(HubNames[i], use_enhanced_analysis))
                              @@ data]
             ELSE AnalyzeHubsLoopAborting(h.m, t, r, i + 1,
                                          (HubNames[i] :> h.ret[1]) @@ data,
                                          use_enhanced_analysis))

\* The loop over trade_hubs from the i-th hub on: [m, data], data: hub -> report.
RECURSIVE AnalyzeHubsLoop(_, _, _, _, _, _)
AnalyzeHubsLoop(m, t, r, i, data, use_enhanced_analysis) ==
    IF i > Len(HubNames) THEN [m |-> m, data |-> data]
    ELSE With(analyze_warehouse_hub(m, t, r, HubNames[i], use_enhanced_analysis),
              LAMBDA h :
             AnalyzeHubsLoop(h.m, t, r, i + 1,
                             (HubNames[i] :> IF h.raised
                                             THEN ErrorReport(HubNames[i],
                                                              use_enhanced_analysis)
                                             ELSE h.ret[1]) @@ data,
                             use_enhanced_analysis))

\* calculate_precision_metrics.
calculate_precision_metrics(data) ==
    LET hubs == DOMAIN data
        ItemCount(h) == Len(data[h].items)
        WithBasis(h) == Cardinality({i \in 1..Len(data[h].items) : data[h].items[i].has_cost_basis})
        Orders(h) == data[h].active_orders_summary.buy_orders
                       + data[h].active_orders_summary.sell_orders
        Total(F(_)) == SumSeq([i \in 1..Len(HubNames) |->
                                  IF HubNames[i] \in hubs THEN F(HubNames[i]) ELSE 0])
    IN [items_with_cost_basis |-> Total(WithBasis),
        total_items |-> Total(ItemCount),
        total_active_orders |-> Total(Orders)]

\* analyze_all_warehouses: [m, raised, ret].
analyze_all_warehouses(m, t, r, use_enhanced_analysis) ==
    With(get_courier_contracts(m, t, r), LAMBDA c :
    With(AnalyzeHubsLoop(c.m, t, r, 1, EmptyPrices, use_enhanced_analysis), LAMBDA l :
    With(calculate_actual_realized_profit(l.m, t, r, 30), LAMBDA p :
        LET Total(F(_)) ==
                SumSeq([i \in 1..Len(HubNames) |->
                           IF HubNames[i] \in DOMAIN l.data THEN F(l.data[HubNames[i]])
                           ELSE 0])
            Theoretical(x) == x.total_theoretical_value
            Isk(x) == x.isk_in_orders
            Items(x) == x.total_items
        IN [m |-> p.m, raised |-> FALSE,
            ret |-> [warehouse_data |-> l.data,
                     courier_contracts |-> c.ret,
                     summary |-> [total_theoretical_value |-> Total(Theoretical),
                                  total_actual_profit |-> p.ret.total_realized_profit,
                                  total_isk_in_orders |-> Total(Isk),
                                  total_items_all_hubs |-> Total(Items),
                                  hubs_analyzed |-> Cardinality(DOMAIN l.data),
                                  enhanced_analysis |-> use_enhanced_analysis,
                                  precision_metrics |-> calculate_precision_metrics(l.data)],
                     realized_profit_details |-> p.ret]])))

\* ------------------------------------------ Region price-delta scanner

\* TradingAnalyzer.trade_hubs: the same five names.
analyzer_trade_hubs == Range(HubNames)

\* The regional snapshot the price aggregator answers for a hub: rows of
\* [typeid, avg_price_yesterday, vol_yesterday].
Snapshot(hub) ==
    CASE hub = "Jita" ->
           << [typeid |-> 34, avg_price_yesterday |-> 100, vol_yesterday |-> 80],
              [typeid |-> 35, avg_price_yesterday |-> 10, vol_yesterday |-> 500],
              [typeid |-> 36, avg_price_yesterday |-> 0, vol_yesterday |-> 0] >>
      [] hub = "Amarr" ->
           << [typeid |-> 34, avg_price_yesterday |-> 150, vol_yesterday |-> 90] >>
      [] hub = "Rens" ->
           << [typeid |-> 34, avg_price_yesterday |-> 120, vol_yesterday |-> 10],
              [typeid |-> 35, avg_price_yesterday |-> 12, vol_yesterday |-> 300] >>
      [] hub = "Dodixie" ->
           << [typeid |-> 34, avg_price_yesterday |-> 100, vol_yesterday |-> 75] >>
      [] hub = "Hek" ->
           << [typeid |-> 34, avg_price_yesterday |-> 150, vol_yesterday |-> 60],
              [typeid |-> 36, avg_price_yesterday |-> 5, vol_yesterday |-> 5] >>

\* The Item Reference Table: type 36 has no row, so its TYPENAME is NaN after the merge.
TypeName(typeid) ==
    CASE typeid = 34 -> Some("Tritanium")
      [] typeid = 35 -> Some("Pyerite")
      [] OTHER -> None

\* One hub's rows after "TradeHub" is set and the names are merged in.
HubFrame(hub) ==
    LET rows == Snapshot(hub)
    IN [i \in 1..Len(rows) |->
           [typeid |-> rows[i].typeid,
            avg_price_yesterday |-> rows[i].avg_price_yesterday,
            vol_yesterday |-> rows[i].vol_yesterday,
            TradeHub |-> hub,
            TYPENAME |-> TypeName(rows[i].typeid)]]

\* Variant: the margin taken relative to the highest price (used to test C20).
calculate_deltas_relative_to_max(typeid, group) ==
    LET prices == {group[i].avg_price_yesterday : i \in 1..Len(group)}
        max_price == CHOOSE x \in prices : \A y \in prices : y <= x
        min_price == CHOOSE x \in prices : \A y \in prices : y >= x
        First(x) == CHOOSE i \in 1..Len(group) :
                        /\ group[i].avg_price_yesterday = x
                        /\ \A j \in 1..(i - 1) : group[j].avg_price_yesterday # x
        idx_max == First(max_price)
        idx_min == First(min_price)
        delta == max_price - min_price
    IN [typeid |-> typeid,
        max_price |-> max_price,
        min_price |-> min_price,
        delta |-> delta,
        delta_percentage |-> IF max_price # 0
                             THEN Round2((delta * 1000000) \div max_price) ELSE 0,
        max_tradehub |-> group[idx_max].TradeHub,
        min_tradehub |-> group[idx_min].TradeHub,
        max_vol_yesterday |-> group[idx_max].vol_yesterday,
        min_vol_yesterday |-> group[idx_min].vol_yesterday,
        typename |-> group[idx_max].TYPENAME]

\* calculate_deltas on the rows of one type. idxmax and idxmin are the first row
\* that holds the extreme. delta_percentage is round(x, 2), in hundredths of a percent.
calculate_deltas(typeid, group) ==
    LET prices == {group[i].avg_price_yesterday : i \in 1..Len(group)}
        max_price == CHOOSE x \in prices : \A y \in prices : y <= x
        min_price == CHOOSE x \in prices : \A y \in prices : y >= x
        First(x) == CHOOSE i \in 1..Len(group) :
                        /\ group[i].avg_price_yesterday = x
                        /\ \A j \in 1..(i - 1) : group[j].avg_price_yesterday # x
        idx_max == First(max_price)
        idx_min == First(min_price)
        delta == max_price - min_price
    IN [typeid |-> typeid,
        max_price |-> max_price,
        min_price |-> min_price,
        delta |-> delta,
        delta_percentage |-> IF min_price # 0
                             THEN Round2((delta * 1000000) \div min_price) ELSE 0,
        max_tradehub |-> group[idx_max].TradeHub,
        min_tradehub |-> group[idx_min].TradeHub,
        max_vol_yesterday |-> group[idx_max].vol_yesterday,
        min_vol_yesterday |-> group[idx_min].vol_yesterday,
        typename |-> group[idx_max].TYPENAME]

\* The ascending sequence of the numbers of a finite set.
RECURSIVE Ascending(_)
Ascending(S) ==
    IF S = {} THEN <<>>
    ELSE LET x == CHOOSE y \in S : \A z \in S : y <= z
         IN <<x>> \o Ascending(S \ {x})

\* combined_df.groupby('typeid').apply(calculate_deltas): one row per type, by type id.
GroupDeltas(combined) ==
    LET ids == Ascending({combined[i].typeid : i \in 1..Len(combined)})
        Group(id) == LET Is(x) == x.typeid = id IN SelectSeq(combined, Is)
    IN [k \in 1..Len(ids) |-> calculate_deltas(ids[k], Group(ids[k]))]

\* The filter thresholds of a request; None is "not given".
EndpointDefaults ==
    [min_margin |-> 0, max_margin |-> 99999900, min_volume |-> 0, max_volume |-> None,
     min_price |-> 0, max_price |-> None, min_profit |-> None, max_profit |-> None]

\* sort_values('delta_percentage', ascending = False); rows that tie keep their order.
RECURSIVE SortByMargin(_)
SortByMargin(rows) ==
    IF rows = <<>> THEN <<>>
    ELSE LET rest == SortByMargin(SubSeq(rows, 1, Len(rows) - 1))
             x == rows[Len(rows)]
             k == Cardinality({i \in 1..Len(rest) :
                                  rest[i].delta_percentage >= x.delta_percentage})
         IN SubSeq(rest, 1, k) \o <<x>> \o SubSeq(rest, k + 1, Len(rest))

\* _filter_opportunities: margins in hundredths of a percent. The hub filter runs
\* only for a selection of more than one hub.
filter_opportunities(data, selected_hubs, f) ==
    LET Keep(x) ==
            /\ x.min_vol_yesterday >= f.min_volume
            /\ x.max_vol_yesterday >= f.min_volume
            /\ (f.max_volume # None =>
                    x.min_vol_yesterday <= f.max_volume[1] /\ x.max_vol_yesterday <= f.max_volume[1])
            /\ x.delta_percentage >= f.min_margin
            /\ x.delta_percentage <= f.max_margin
            /\ x.min_price >= f.min_price
            /\ (f.max_price # None => x.max_price <= f.max_price[1])
            /\ (f.min_profit # None => x.delta >= f.min_profit[1])
            /\ (f.max_profit # None => x.delta <= f.max_profit[1])
            /\ (Len(selected_hubs) > 1 =>
                    /\ x.min_tradehub \in Range(selected_hubs)
                    /\ x.max_tradehub \in Range(selected_hubs))
        Named(x) == x.typename # None
        rows == SelectSeq(SortByMargin(SelectSeq(data, Keep)), Named)
    IN [i \in 1..Len(rows) |-> [rows[i] EXCEPT !.typename = rows[i].typename[1]]]

\* The fetch loop of get_trade_opportunities from the i-th hub on: [raised, frames,
\* fetched]. A name that is not in trade_hubs is skipped.
RECURSIVE FetchHubsLoop(_, _, _, _, _)
FetchHubsLoop(hubs_to_fetch, i, frames, fetched, r) ==
    IF i > Len(hubs_to_fetch) THEN [raised |-> FALSE, frames |-> frames, fetched |-> fetched]
    ELSE IF hubs_to_fetch[i] \notin analyzer_trade_hubs
    THEN FetchHubsLoop(hubs_to_fetch, i + 1, frames, fetched, r)
    ELSE IF hubs_to_fetch[i] \in r.mokaam_down
    THEN [raised |-> TRUE, frames |-> frames, fetched |-> fetched \cup {hubs_to_fetch[i]}]
    ELSE FetchHubsLoop(hubs_to_fetch, i + 1, frames \o HubFrame(hubs_to_fetch[i]),
                       fetched \cup {hubs_to_fetch[i]}, r)

\* Variant: an entry that is exactly duration old still counts (used to test C2).
cache_valid_inclusive(cache, timestamp, t, duration) ==
    cache # None /\ timestamp # None /\ t - timestamp[1] <= duration

\* The cache check of both handlers: an entry is there and is younger than duration.
cache_valid(cache, timestamp, t, duration) ==
    cache # None /\ timestamp # None /\ t - timestamp[1] < duration

\* Variant: the time of the fetch is recorded before the fetch has succeeded (used
\* to test C28).
get_trade_opportunities_stamping_first(cache, timestamp, t, r, selected_hubs, f) ==
    IF cache_valid(cache, timestamp, t, CACHE_DURATION)
    THEN [hit |-> TRUE, raised |-> FALSE, computed |-> FALSE,
          ret |-> filter_opportunities(cache[1], selected_hubs, f),
          cache |-> cache, timestamp |-> timestamp, fetched |-> {}]
    ELSE LET hubs_to_fetch == IF selected_hubs # <<>> THEN selected_hubs ELSE HubNames
         IN With(IF r.types_ok THEN FetchHubsLoop(hubs_to_fetch, 1, <<>>, {}, r)
                 ELSE [raised |-> TRUE, frames |-> <<>>, fetched |-> {}], LAMBDA l :
                IF l.raised \/ l.frames = <<>>
                THEN [hit |-> FALSE, raised |-> l.raised, computed |-> FALSE, ret |-> <<>>,
                      cache |-> cache, timestamp |-> Some(t), fetched |-> l.fetched]
                ELSE With(GroupDeltas(l.frames), LAMBDA result :
                         [hit |-> FALSE, raised |-> FALSE, computed |-> TRUE,
                          ret |-> filter_opportunities(result, selected_hubs, f),
                          cache |-> Some(result), timestamp |-> Some(t),
                          fetched |-> l.fetched]))

\* get_trade_opportunities: [hit, raised, computed, ret, cache, timestamp, fetched].
\* computed says that the result table was built (and stored).
get_trade_opportunities(cache, timestamp, t, r, selected_hubs, f) ==
    IF cache_valid(cache, timestamp, t, CACHE_DURATION)
    THEN [hit |-> TRUE, raised |-> FALSE, computed |-> FALSE,
          ret |-> filter_opportunities(cache[1], selected_hubs, f),
          cache |-> cache, timestamp |-> timestamp, fetched |-> {}]
    ELSE LET hubs_to_fetch == IF selected_hubs # <<>> THEN selected_hubs ELSE HubNames
         IN With(IF r.types_ok THEN FetchHubsLoop(hubs_to_fetch, 1, <<>>, {}, r)
                 ELSE [raised |-> TRUE, frames |-> <<>>, fetched |-> {}], LAMBDA l :
                IF l.raised \/ l.frames = <<>>
                THEN [hit |-> FALSE, raised |-> l.raised, computed |-> FALSE, ret |-> <<>>,
                      cache |-> cache, timestamp |-> timestamp, fetched |-> l.fetched]
                ELSE With(GroupDeltas(l.frames), LAMBDA result :
                         [hit |-> FALSE, raised |-> FALSE, computed |-> TRUE,
                          ret |-> filter_opportunities(result, selected_hubs, f),
                          cache |-> Some(result), timestamp |-> Some(t),
                          fetched |-> l.fetched]))

\* ------------------------------------------------- The remote services

\* The rows the remote asset listing is drawn from, in the listing's order: stock at
\* Jita, a row at Rens that lacks its quantity (a malformed payload), stock at Hek,
\* and a row at a station that is no hub's.
AssetRows ==
    << [type_id |-> 34, location_id |-> 60003760, quantity |-> Some(2)],
       [type_id |-> 34, location_id |-> 60004588, quantity |-> None],
       [type_id |-> 35, location_id |-> 60005686, quantity |-> Some(3)],
       [type_id |-> 35, location_id |-> 60000001, quantity |-> Some(1)] >>

\* The listings: at most MaxAssets of the rows.
AssetLists ==
    LET Picks == {s \in UNION {[1..n -> 1..Len(AssetRows)] : n \in 0..MaxAssets} :
                     \A i, j \in DOMAIN s : i < j => s[i] < s[j]}
    IN {[i \in DOMAIN s |-> AssetRows[s[i]]] : s \in Picks}

\* The character's open orders.
RemoteOrders ==
    << [order_id |-> 1, type_id |-> 34, location_id |-> 60003760, price |-> 80,
        volume_remain |-> 2, is_buy_order |-> TRUE],
       [order_id |-> 2, type_id |-> 35, location_id |-> 60003760, price |-> 70,
        volume_remain |-> 1, is_buy_order |-> FALSE] >>

\* The corporation's wallet transactions: two purchases, one older than 30 days, a sale.
RemoteTransactions ==
    << [type_id |-> 34, location_id |-> 60003760, quantity |-> 10, unit_price |-> 100,
        is_buy |-> TRUE, date |-> 0],
       [type_id |-> 34, location_id |-> 60003760, quantity |-> 5, unit_price |-> 130,
        is_buy |-> TRUE, date |-> 0 - 31 * SECONDS_PER_DAY],
       [type_id |-> 34, location_id |-> 60003760, quantity |-> 2, unit_price |-> 1000,
        is_buy |-> FALSE, date |-> 0] >>

\* esi_up: the authenticated ESI endpoints answer; sso_up: the token endpoint answers;
\* market_down: the types whose public order-book request fails; types_ok: invTypes.xlsx
\* loads; mokaam_down: the hubs whose regional price snapshot request fails.
Remotes ==
    {r \in [assets : AssetLists, esi_up : BOOLEAN, sso_up : BOOLEAN,
            market_down : {{}, {35}}, orders : {RemoteOrders},
            txns : {RemoteTransactions}, types_ok : {TRUE},
            mokaam_down : {{}}] : r.esi_up \/ r.sso_up}

\* What load_tokens can find in the token file when the client is constructed.
NoTokens == [access_token |-> "", refresh_token |-> "", character_id |-> 0,
             token_expires |-> None]

StoredTokens ==
    { NoTokens,
      [access_token |-> "stored", refresh_token |-> "refresh", character_id |-> 90000001,
       token_expires |-> Some(600)],
      [access_token |-> "stored", refresh_token |-> "refresh", character_id |-> 90000001,
       token_expires |-> Some(0)],
      [access_token |-> "stored", refresh_token |-> "", character_id |-> 90000001,
       token_expires |-> Some(0)] }

\* WarehouseManager.__init__: the default skill levels.
DefaultSkills ==
    [broker_relations |-> 5, accounting |-> 5, margin_trading |-> 4, marketing |-> 4,
     procurement |-> 4, daytrading |-> 0, visibility |-> 0, trade |-> 3]

NoCall == [op |-> "none", arg |-> None, enhanced |-> FALSE, raised |-> FALSE,
           ret |-> None, sent |-> {}, hit |-> FALSE]

\* The server's worker threads, and a thread that is serving no request: op is the
\* handler it runs, pc the statement it is at, seen the time at which its check found
\* the cache missing or the token expired, local its local variable.
Threads == {"a", "b"}

Idle == [op |-> "none", pc |-> "idle", seen |-> None, local |-> None, raised |-> FALSE]

NoThreads == [th \in Threads |-> Idle]

\* ------------------------------------- SpecWM: the manager called directly

\* The manager object as the methods see it.
Manager ==
    [has_client |-> warehouse_manager = "Client", esi |-> esi,
     trading_skills |-> trading_skills, transactions_cache |-> transactions_cache,
     orders_cache |-> orders_cache, sent |-> {}]

\* The fields a call leaves behind.
Commit(m) ==
    /\ esi' = m.esi
    /\ transactions_cache' = m.transactions_cache
    /\ orders_cache' = m.orders_cache

Dashboard == <<trade_data_cache, cache_timestamp, warehouse_cache, warehouse_cache_timestamp>>

Call(op, arg, enhanced, res, raised, ret) ==
    /\ Commit(res.m)
    /\ last' = [op |-> op, arg |-> arg, enhanced |-> enhanced, raised |-> raised,
                ret |-> ret, sent |-> res.m.sent, hit |-> FALSE]
    /\ UNCHANGED <<now, remote, warehouse_manager, trading_skills, Dashboard, threads>>

InitWM ==
    /\ now = 0
    /\ remote \in Remotes
    /\ \/ warehouse_manager = "Client" /\ esi \in StoredTokens
       \/ warehouse_manager = "NoClient" /\ esi = NoTokens
    /\ trading_skills = DefaultSkills
    /\ transactions_cache = None
    /\ orders_cache = None
    /\ trade_data_cache = None
    /\ cache_timestamp = None
    /\ warehouse_cache = None
    /\ warehouse_cache_timestamp = None
    /\ last = NoCall
    /\ threads = NoThreads

Tick ==
    /\ \E step \in TickSteps :
           /\ now + step <= MaxNow
           /\ now' = now + step
    /\ UNCHANGED <<remote, esi, warehouse_manager, trading_skills, transactions_cache,
                   orders_cache, Dashboard, last, threads>>

CallGetCharacterAssets ==
    \E res \in {get_character_assets(Manager, now, remote)} :
        Call("get_character_assets", None, FALSE, res, FALSE, res.ret)

CallGetCorporationAssets ==
    \E res \in {get_corporation_assets(Manager, now, remote)} :
        Call("get_corporation_assets", None, FALSE, res, FALSE, res.ret)

CallGetCharacterOrders ==
    \E res \in {get_character_orders(Manager, now, remote)} :
        Call("get_character_orders", None, FALSE, res, FALSE, res.ret)

\* ESIClient.get_character_wallet, on the client the manager shares.
CallGetCharacterWallet ==
    /\ warehouse_manager = "Client"
    /\ \E q \in {get_character_wallet(esi, now, remote)} :
           Call("get_character_wallet", None, FALSE,
                [m |-> Sent([Manager EXCEPT !.esi = q.esi], q.sent)], q.raised, q.ret)

\* The batches get_market_prices is called with.
TypeIdLists == {<<>>, <<34>>, <<35>>, <<34, 35>>, <<35, 34>>}

CallGetMarketPrices ==
    \E type_ids \in TypeIdLists :
        Call("get_market_prices", Some(type_ids), FALSE,
             [m |-> Sent(Manager, IF type_ids = <<>> THEN {}
                                  ELSE {PublicRequest("market_orders")})], FALSE,
             get_market_prices(region_id("Jita"), type_ids, remote))

\* The hub names a caller can ask for: the configured ones and one that is none of them.
RequestedHubs == {"Jita", "Rens", "Perimeter"}

CallAnalyzeWarehouseHub ==
    \E hub_name \in RequestedHubs, enhanced \in BOOLEAN :
        \E res \in {analyze_warehouse_hub(Manager, now, remote, hub_name, enhanced)} :
            Call("analyze_warehouse_hub", Some(hub_name), enhanced, res, res.raised, res.ret)

CallAnalyzeAllWarehouses ==
    \E enhanced \in BOOLEAN :
        \E res \in {analyze_all_warehouses(Manager, now, remote, enhanced)} :
            Call("analyze_all_warehouses", None, enhanced, res, res.raised, Some(res.ret))

NextWM ==
    \/ Tick
    \/ CallGetCharacterAssets
    \/ CallGetCorporationAssets
    \/ CallGetCharacterOrders
    \/ CallGetCharacterWallet
    \/ CallGetMarketPrices
    \/ CallAnalyzeWarehouseHub
    \/ CallAnalyzeAllWarehouses

SpecWM == InitWM /\ [][NextWM]_vars

\* --------------------------------------------- Spec: the handlers of app.py

\* The worlds the dashboard runs in: every service answers; the price service fails
\* for Amarr; the item table does not load and the ESI endpoints fail.
AppRemotes ==
    {r \in [assets : {SubSeq(AssetRows, 1, MaxAssets)}, esi_up : BOOLEAN, sso_up : {TRUE},
            market_down : {{}}, orders : {RemoteOrders}, txns : {RemoteTransactions},
            types_ok : BOOLEAN, mokaam_down : {{}, {"Amarr"}}] :
        /\ r.types_ok \/ r.mokaam_down = {}
        /\ r.esi_up = r.types_ok}

\* The token files the dashboard starts with.
AppTokens == {e \in StoredTokens : e.token_expires = Some(600)}

\* esi_client = ESIClient() at import; warehouse_manager = None until a handler makes one.
Init ==
    /\ now = 0
    /\ remote \in AppRemotes
    /\ esi \in AppTokens
    /\ warehouse_manager = "None"
    /\ trading_skills = DefaultSkills
    /\ transactions_cache = None
    /\ orders_cache = None
    /\ trade_data_cache = None
    /\ cache_timestamp = None
    /\ warehouse_cache = None
    /\ warehouse_cache_timestamp = None
    /\ last = NoCall
    /\ threads = NoThreads

\* The hub selections of a /api/trades request: none, one hub, two hubs, and
\* selections that name a hub that is not configured.
HubSelections == {<<>>, <<"Rens">>, <<"Jita", "Amarr">>, <<"Jita", "Perimeter">>,
                  <<"Perimeter">>}

\* The thresholds of a /api/trades request.
Filters == {EndpointDefaults}

\* GET /api/trades.
GetTrades ==
    \E selected_hubs \in HubSelections, f \in Filters :
        \E res \in {get_trade_opportunities(trade_data_cache, cache_timestamp, now,
                                             remote, selected_hubs, f)} :
           /\ trade_data_cache' = res.cache
           /\ cache_timestamp' = res.timestamp
           /\ last' = [op |-> "get_trades", arg |-> Some(selected_hubs), enhanced |-> FALSE,
                       raised |-> res.raised, ret |-> Some(res.ret),
                       sent |-> IF res.fetched = {} THEN {}
                                ELSE {PublicRequest("mokaam")},
                       hit |-> res.hit]
           /\ UNCHANGED <<now, remote, esi, warehouse_manager, trading_skills,
                          transactions_cache, orders_cache, warehouse_cache,
                          warehouse_cache_timestamp, threads>>

\* "if warehouse_manager is None: warehouse_manager = WarehouseManager(esi_client)".
WithClient == IF warehouse_manager = "None" THEN "Client" ELSE warehouse_manager

\* "if warehouse_manager is None: warehouse_manager = WarehouseManager()".
WithoutClient == IF warehouse_manager = "None" THEN "NoClient" ELSE warehouse_manager

\* Variant: a handler that runs the analysis on every request (used to test C1).
get_warehouse_data_uncached(cache, timestamp, m, t, r, enhanced) ==
    With(analyze_all_warehouses(m, t, r, enhanced), LAMBDA res :
    With([success |-> TRUE, data |-> res.ret, timestamp |-> t], LAMBDA payload :
        [hit |-> FALSE, m |-> res.m, cache |-> Some(payload), timestamp |-> Some(t),
         ret |-> Some(payload)]))

\* The body of get_warehouse_data after the manager exists: [hit, m, cache,
\* timestamp, ret]. A stored payload younger than WAREHOUSE_CACHE_DURATION is the
\* answer; otherwise the analysis runs and its payload is stored with the time.
get_warehouse_data(cache, timestamp, m, t, r, enhanced) ==
    IF cache_valid(cache, timestamp, t, WAREHOUSE_CACHE_DURATION)
    THEN [hit |-> TRUE, m |-> m, cache |-> cache, timestamp |-> timestamp, ret |-> cache]
    ELSE With(analyze_all_warehouses(m, t, r, enhanced), LAMBDA res :
         With([success |-> TRUE, data |-> res.ret, timestamp |-> t], LAMBDA payload :
             [hit |-> FALSE, m |-> res.m, cache |-> Some(payload), timestamp |-> Some(t),
              ret |-> Some(payload)]))

\* GET /api/warehouse.
GetWarehouseData ==
    \E enhanced \in BOOLEAN :
        \E res \in {get_warehouse_data(warehouse_cache, warehouse_cache_timestamp,
                                        [Manager EXCEPT !.has_client = WithClient = "Client"],
                                        now, remote, enhanced)} :
           /\ warehouse_manager' = WithClient
           /\ Commit(res.m)
           /\ warehouse_cache' = res.cache
           /\ warehouse_cache_timestamp' = res.timestamp
           /\ last' = [op |-> "get_warehouse_data", arg |-> None, enhanced |-> enhanced,
                       raised |-> FALSE, ret |-> res.ret, sent |-> res.m.sent,
                       hit |-> res.hit]
           /\ UNCHANGED <<now, remote, trading_skills, trade_data_cache, cache_timestamp,
                          threads>>

\* The hub names of a /api/warehouse/<hub_name> request.
HubPaths == {"Jita", "Perimeter"}

\* GET /api/warehouse/<hub_name>.
GetWarehouseHubData ==
    \E hub_name \in HubPaths, enhanced \in BOOLEAN :
        \E res \in {analyze_warehouse_hub(
                         [Manager EXCEPT !.has_client = WithClient = "Client"],
                         now, remote, hub_name, enhanced)} :
           /\ warehouse_manager' = WithClient
           /\ Commit(res.m)
           /\ last' = [op |-> "get_warehouse_hub_data", arg |-> Some(hub_name),
                       enhanced |-> enhanced, raised |-> res.raised,
                       ret |-> IF res.raised THEN None ELSE Some(res.ret),
                       sent |-> res.m.sent, hit |-> FALSE]
           /\ UNCHANGED <<now, remote, trading_skills, Dashboard, threads>>

\* GET /api/warehouse/skills.
GetTradingSkills ==
    /\ warehouse_manager' = WithoutClient
    /\ last' = [op |-> "get_trading_skills", arg |-> None, enhanced |-> FALSE,
                raised |-> FALSE,
                ret |-> Some([trading_skills |-> trading_skills,
                              broker_fee_rate |-> calculate_broker_fee_rate(trading_skills),
                              sales_tax_rate |-> calculate_sales_tax_rate(trading_skills)]),
                sent |-> {}, hit |-> FALSE]
    /\ UNCHANGED <<now, remote, esi, trading_skills, transactions_cache, orders_cache,
                   Dashboard, threads>>

\* Variant: only the upper end is clamped (used to test C4).
clamp_level_upper_only(level) == Min(5, level)

\* "max(0, min(5, int(level)))" of a level that int() accepts.
clamp_level(level) == Max(0, Min(5, level))

\* The loop over data['trading_skills'].items() from the i-th pair on: [raised, skills].
\* A level of None is one that int() rejects; the levels set before it stay set.
RECURSIVE UpdateSkillsLoop(_, _, _)
UpdateSkillsLoop(skills, updates, i) ==
    IF i > Len(updates) THEN [raised |-> FALSE, skills |-> skills]
    ELSE LET skill == updates[i][1]
             level == updates[i][2]
         IN IF skill \notin DOMAIN skills THEN UpdateSkillsLoop(skills, updates, i + 1)
            ELSE IF level = None THEN [raised |-> TRUE, skills |-> skills]
            ELSE UpdateSkillsLoop([skills EXCEPT ![skill] = clamp_level(level[1])],
                                  updates, i + 1)

\* The bodies of POST /api/warehouse/skills: no JSON at all (None), or the pairs of
\* its trading_skills object in order (none when the key is absent). A level of
\* None is one that int() rejects.
PostedBodies ==
    { None,
      Some(<<>>),
      Some(<< <<"accounting", Some(0 - 1)>> >>),
      Some(<< <<"broker_relations", Some(9)>>, <<"bogus", Some(2)>> >>),
      Some(<< <<"accounting", Some(3)>>, <<"margin_trading", None>> >>) }

\* Variant: an update that leaves the warehouse cache alone (used to test C3).
update_trading_skills_keeping_cache(skills, cache, timestamp, data) ==
    With(IF data = None THEN [raised |-> TRUE, skills |-> skills]
         ELSE UpdateSkillsLoop(skills, data[1], 1), LAMBDA res :
        [raised |-> res.raised, skills |-> res.skills, cache |-> cache,
         timestamp |-> timestamp])

\* The body of update_trading_skills after the manager exists: [raised, skills,
\* cache, timestamp]. "'trading_skills' in data" raises for a body of None; the
\* cache is cleared only when the loop has run to its end.
update_trading_skills(skills, cache, timestamp, data) ==
    With(IF data = None THEN [raised |-> TRUE, skills |-> skills]
         ELSE UpdateSkillsLoop(skills, data[1], 1), LAMBDA res :
        IF res.raised
        THEN [raised |-> TRUE, skills |-> res.skills, cache |-> cache,
              timestamp |-> timestamp]
        ELSE [raised |-> FALSE, skills |-> res.skills, cache |-> None,
              timestamp |-> None])

\* POST /api/warehouse/skills.
UpdateTradingSkills ==
    \E data \in PostedBodies :
        \E res \in {update_trading_skills(trading_skills, warehouse_cache,
                                           warehouse_cache_timestamp, data)} :
           /\ warehouse_manager' = WithoutClient
           /\ trading_skills' = res.skills
           /\ warehouse_cache' = res.cache
           /\ warehouse_cache_timestamp' = res.timestamp
           /\ last' = [op |-> "update_trading_skills", arg |-> data, enhanced |-> FALSE,
                       raised |-> res.raised,
                       ret |-> IF res.raised THEN None
                               ELSE Some([updated_skills |-> res.skills,
                                          new_broker_fee_rate |->
                                              calculate_broker_fee_rate(res.skills),
                                          new_sales_tax_rate |->
                                              calculate_sales_tax_rate(res.skills)]),
                       sent |-> {}, hit |-> FALSE]
           /\ UNCHANGED <<now, remote, esi, transactions_cache, orders_cache,
                          trade_data_cache, cache_timestamp, threads>>

\* ESIClient.get_corporation_wallets: the validity check, then the request for the
\* master wallet: [raised, esi, sent, ret].
get_corporation_wallets(e, t, r) ==
    With(ensure_valid_token(e, t, r), LAMBDA v :
        IF v.raised THEN [raised |-> TRUE, esi |-> v.esi, sent |-> {}, ret |-> None]
        ELSE With(Accepted(v.esi, t, r), LAMBDA ok :
                 [raised |-> ~ok, esi |-> v.esi,
                  sent |-> {Request("corporation_wallets", v.esi, t)},
                  ret |-> IF ok THEN Some(1800000) ELSE None]))

\* The balance get_wallet_info reports when the character wallet request raises.
FALLBACK_CHAR_WALLET == 745390

\* get_wallet_info: [esi, sent, body]. corp_wallet is None where the body carries the
\* string "NO VALUE".
get_wallet_info(e, t, r) ==
    IF ~is_authenticated(e)
    THEN [esi |-> e, sent |-> {},
          body |-> [error |-> TRUE, corp_wallet |-> Some(0), char_wallet |-> 0,
                    character_name |-> FALSE]]
    ELSE With(get_character_wallet(e, t, r), LAMBDA char :
         With(get_corporation_wallets(char.esi, t, r), LAMBDA corp :
             [esi |-> corp.esi, sent |-> char.sent \cup corp.sent,
              body |-> [corp_wallet |-> corp.ret,
                        char_wallet |-> IF char.raised THEN FALLBACK_CHAR_WALLET
                                        ELSE char.ret[1],
                        character_name |-> TRUE, last_updated |-> t]]))

\* GET /api/wallet.
GetWalletInfo ==
    \E res \in {get_wallet_info(esi, now, remote)} :
        /\ esi' = res.esi
        /\ last' = [op |-> "get_wallet_info", arg |-> None, enhanced |-> FALSE,
                    raised |-> FALSE, ret |-> Some(res.body), sent |-> res.sent,
                    hit |-> FALSE]
        /\ UNCHANGED <<now, remote, warehouse_manager, trading_skills, transactions_cache,
                       orders_cache, Dashboard, threads>>

\* get_profit_history: the body. The function assigns warehouse_manager without
\* declaring it global, so "if warehouse_manager is None" raises for an authenticated
\* client before any request; the inner except, like the unauthenticated branch,
\* answers with _create_zero_profit_days().
get_profit_history(e) ==
    [success |-> TRUE,
     daily_profits |-> [i \in 1..7 |-> [profit |-> 0, trades |-> 0]],
     total_7_day_profit |-> 0, average_daily_profit |-> 0]

\* GET /api/profit-history.
GetProfitHistory ==
    /\ last' = [op |-> "get_profit_history", arg |-> None, enhanced |-> FALSE,
                raised |-> FALSE, ret |-> Some(get_profit_history(esi)), sent |-> {},
                hit |-> FALSE]
    /\ UNCHANGED <<now, remote, esi, warehouse_manager, trading_skills,
                   transactions_cache, orders_cache, Dashboard, threads>>

Next ==
    \/ Tick
    \/ GetTrades
    \/ GetWalletInfo
    \/ GetProfitHistory
    \/ GetWarehouseData
    \/ GetWarehouseHubData
    \/ GetTradingSkills
    \/ UpdateTradingSkills

Spec == Init /\ [][Next]_vars

\* ------------------------- SpecConc: two threads, statement by statement
\* app.run() serves each request on a thread of its own; the module globals and the
\* singleton client are shared, and no handler takes a lock.

\* The world the threaded server runs in: every service answers, or all but the
\* token endpoint.
ConcRemotes ==
    [assets : {SubSeq(AssetRows, 1, 1)}, esi_up : {TRUE}, sso_up : BOOLEAN,
     market_down : {{}}, orders : {RemoteOrders}, txns : {RemoteTransactions},
     types_ok : {TRUE}, mokaam_down : {{}}]

\* The token files: one whose token has expired, and the same without a refresh token.
ConcTokens == {e \in StoredTokens : e.token_expires = Some(0)}

\* The lifetimes the token endpoint grants ("expires_in").
ExpiresIn == {CACHE_DURATION, EXPIRES_IN}

\* The warehouse manager exists (a request has been served before).
InitConc ==
    /\ now = 0
    /\ remote \in ConcRemotes
    /\ esi \in ConcTokens
    /\ warehouse_manager = "Client"
    /\ trading_skills = DefaultSkills
    /\ transactions_cache = None
    /\ orders_cache = None
    /\ trade_data_cache = None
    /\ cache_timestamp = None
    /\ warehouse_cache = None
    /\ warehouse_cache_timestamp = None
    /\ last = NoCall
    /\ threads = NoThreads

\* Thread th moves to statement pc of handler op.
Goto(th, op, pc, seen, local, raised) ==
    threads' = [threads EXCEPT ![th] = [op |-> op, pc |-> pc, seen |-> seen,
                                        local |-> local, raised |-> raised]]

At(th, op, pc) == threads[th].op = op /\ threads[th].pc = pc

\* get_trade_opportunities, the cache check (app.py lines 60-63).
TradesCheck(th) ==
    /\ threads[th].pc = "idle"
    /\ IF cache_valid(trade_data_cache, cache_timestamp, now, CACHE_DURATION)
       THEN Goto(th, "get_trades", "done", None, None, FALSE)
       ELSE Goto(th, "get_trades", "recompute", Some(now), None, FALSE)
    /\ UNCHANGED <<now, remote, esi, warehouse_manager, trading_skills, transactions_cache,
                   orders_cache, Dashboard, last>>

\* get_trade_opportunities, the fetch of every hub and the reduction (lines 65-123).
TradesRecompute(th) ==
    /\ At(th, "get_trades", "recompute")
    /\ \E l \in {IF remote.types_ok THEN FetchHubsLoop(HubNames, 1, <<>>, {}, remote)
                 ELSE [raised |-> TRUE, frames |-> <<>>, fetched |-> {}]} :
           IF l.raised \/ l.frames = <<>>
           THEN Goto(th, "get_trades", "done", threads[th].seen, None, l.raised)
           ELSE Goto(th, "get_trades", "store_cache", threads[th].seen,
                     Some(GroupDeltas(l.frames)), FALSE)
    /\ UNCHANGED <<now, remote, esi, warehouse_manager, trading_skills, transactions_cache,
                   orders_cache, Dashboard, last>>

\* "trade_data_cache = result" (line 126).
TradesStoreCache(th) ==
    /\ At(th, "get_trades", "store_cache")
    /\ trade_data_cache' = threads[th].local
    /\ Goto(th, "get_trades", "store_timestamp", threads[th].seen, threads[th].local, FALSE)
    /\ UNCHANGED <<now, remote, esi, warehouse_manager, trading_skills, transactions_cache,
                   orders_cache, cache_timestamp, warehouse_cache,
                   warehouse_cache_timestamp, last>>

\* "cache_timestamp = datetime.now()" (line 127), and the return.
TradesStoreTimestamp(th) ==
    /\ At(th, "get_trades", "store_timestamp")
    /\ cache_timestamp' = Some(now)
    /\ Goto(th, "get_trades", "done", threads[th].seen, None, FALSE)
    /\ UNCHANGED <<now, remote, esi, warehouse_manager, trading_skills, transactions_cache,
                   orders_cache, trade_data_cache, warehouse_cache,
                   warehouse_cache_timestamp, last>>

\* get_warehouse_data, the cache check (app.py lines 408-412).
WarehouseCheck(th) ==
    /\ threads[th].pc = "idle"
    /\ IF cache_valid(warehouse_cache, warehouse_cache_timestamp, now,
                      WAREHOUSE_CACHE_DURATION)
       THEN Goto(th, "get_warehouse_data", "done", None, None, FALSE)
       ELSE Goto(th, "get_warehouse_data", "recompute", Some(now), None, FALSE)
    /\ UNCHANGED <<now, remote, esi, warehouse_manager, trading_skills, transactions_cache,
                   orders_cache, Dashboard, last>>

\* get_warehouse_data, the analysis of every hub (lines 414-424).
WarehouseRecompute(th) ==
    /\ At(th, "get_warehouse_data", "recompute")
    /\ \E res \in {analyze_all_warehouses(Manager, now, remote, TRUE)} :
           /\ Commit(res.m)
           /\ Goto(th, "get_warehouse_data", "store_cache", threads[th].seen,
                   Some(res.ret), FALSE)
    /\ UNCHANGED <<now, remote, warehouse_manager, trading_skills, Dashboard, last>>

\* "warehouse_cache = {...}" (lines 427-431).
WarehouseStoreCache(th) ==
    /\ At(th, "get_warehouse_data", "store_cache")
    /\ warehouse_cache' = Some([success |-> TRUE, data |-> threads[th].local[1],
                                timestamp |-> now])
    /\ Goto(th, "get_warehouse_data", "store_timestamp", threads[th].seen, None, FALSE)
    /\ UNCHANGED <<now, remote, esi, warehouse_manager, trading_skills, transactions_cache,
                   orders_cache, trade_data_cache, cache_timestamp,
                   warehouse_cache_timestamp, last>>

\* "warehouse_cache_timestamp = datetime.now()" (line 432), and the return.
WarehouseStoreTimestamp(th) ==
    /\ At(th, "get_warehouse_data", "store_timestamp")
    /\ warehouse_cache_timestamp' = Some(now)
    /\ Goto(th, "get_warehouse_data", "done", threads[th].seen, None, FALSE)
    /\ UNCHANGED <<now, remote, esi, warehouse_manager, trading_skills, transactions_cache,
                   orders_cache, trade_data_cache, cache_timestamp, warehouse_cache, last>>

\* _ensure_valid_token, the two tests (ESI_LocalHost_Access.py lines 248-252).
EnsureCheck(th) ==
    /\ threads[th].pc = "idle"
    /\ IF esi.access_token = ""
       THEN Goto(th, "ensure_valid_token", "done", None, None, TRUE)
       ELSE IF token_expired(esi, now)
       THEN Goto(th, "ensure_valid_token", "refresh", Some(now), None, FALSE)
       ELSE Goto(th, "ensure_valid_token", "done", None, None, FALSE)
    /\ UNCHANGED <<now, remote, esi, warehouse_manager, trading_skills, transactions_cache,
                   orders_cache, Dashboard, last>>

\* refresh_access_token up to "token_data = response.json()" (lines 213-235): the
\* token endpoint grants a new token with a lifetime.
RefreshPost(th) ==
    /\ At(th, "ensure_valid_token", "refresh")
    /\ IF esi.refresh_token = "" \/ ~remote.sso_up
       THEN Goto(th, "ensure_valid_token", "done", threads[th].seen, None, TRUE)
       ELSE \E expires_in \in ExpiresIn :
                Goto(th, "ensure_valid_token", "set_access_token", threads[th].seen,
                     Some([access_token |-> "refreshed", expires_in |-> expires_in]), FALSE)
    /\ UNCHANGED <<now, remote, esi, warehouse_manager, trading_skills, transactions_cache,
                   orders_cache, Dashboard, last>>

\* "self.access_token = token_data['access_token']" (line 236).
RefreshSetAccessToken(th) ==
    /\ At(th, "ensure_valid_token", "set_access_token")
    /\ esi' = [esi EXCEPT !.access_token = threads[th].local[1].access_token]
    /\ Goto(th, "ensure_valid_token", "set_token_expires", threads[th].seen,
            threads[th].local, FALSE)
    /\ UNCHANGED <<now, remote, warehouse_manager, trading_skills, transactions_cache,
                   orders_cache, Dashboard, last>>

\* Variant: the lifetime counted from the time of the validity check (used to test C12).
new_token_expires_from_check(t, seen, token_data) == Some(seen[1] + token_data.expires_in)

\* "datetime.now() + timedelta(seconds=expires_in)" (lines 239-241).
new_token_expires(t, seen, token_data) == Some(t + token_data.expires_in)

\* "self.token_expires = ..." (line 241); save_tokens writes the fields to the token
\* file, and the call returns.
RefreshSetTokenExpires(th) ==
    /\ At(th, "ensure_valid_token", "set_token_expires")
    /\ esi' = [esi EXCEPT !.token_expires =
                              new_token_expires(now, threads[th].seen, threads[th].local[1])]
    /\ Goto(th, "ensure_valid_token", "done", threads[th].seen, None, FALSE)
    /\ UNCHANGED <<now, remote, warehouse_manager, trading_skills, transactions_cache,
                   orders_cache, Dashboard, last>>

\* The response has gone out; the thread takes the next request.
Return(th) ==
    /\ threads[th].pc = "done"
    /\ threads' = [threads EXCEPT ![th] = Idle]
    /\ UNCHANGED <<now, remote, esi, warehouse_manager, trading_skills, transactions_cache,
                   orders_cache, Dashboard, last>>

NextConc ==
    \/ Tick
    \/ \E th \in Threads : TradesCheck(th)
    \/ \E th \in Threads : TradesRecompute(th)
    \/ \E th \in Threads : TradesStoreCache(th)
    \/ \E th \in Threads : TradesStoreTimestamp(th)
    \/ \E th \in Threads : WarehouseCheck(th)
    \/ \E th \in Threads : WarehouseRecompute(th)
    \/ \E th \in Threads : WarehouseStoreCache(th)
    \/ \E th \in Threads : WarehouseStoreTimestamp(th)
    \/ \E th \in Threads : EnsureCheck(th)
    \/ \E th \in Threads : RefreshPost(th)
    \/ \E th \in Threads : RefreshSetAccessToken(th)
    \/ \E th \in Threads : RefreshSetTokenExpires(th)
    \/ \E th \in Threads : Return(th)

SpecConc == InitConc /\ [][NextConc]_vars

\* ------------------------- SpecLedger: the transaction ledger of a manager

\* The worlds of the ledger: the corporation's transactions are RemoteTransactions,
\* the character has none or one purchase, the ESI endpoints answer or not.
LedgerRemotes ==
    [assets : {<<>>}, esi_up : BOOLEAN, sso_up : {TRUE}, market_down : {{}},
     orders : {RemoteOrders}, txns : {RemoteTransactions}, types_ok : {TRUE},
     mokaam_down : {{}},
     char_txns : {<<>>, << [type_id |-> 35, location_id |-> 60008494, quantity |-> 3,
                            unit_price |-> 50, is_buy |-> TRUE, date |-> 0] >>}]

InitLedger ==
    /\ now = 0
    /\ remote \in LedgerRemotes
    /\ esi \in AppTokens
    /\ warehouse_manager = "Client"
    /\ trading_skills = DefaultSkills
    /\ transactions_cache = None
    /\ orders_cache = None
    /\ trade_data_cache = None
    /\ cache_timestamp = None
    /\ warehouse_cache = None
    /\ warehouse_cache_timestamp = None
    /\ last = NoCall
    /\ threads = NoThreads

CallGetCorporationTransactions ==
    \E days_back \in {30, 60}, division \in {1, 2} :
        \E res \in {get_corporation_transactions(Manager, now, remote, days_back, division)} :
            Call("get_corporation_transactions", Some(<<days_back, division>>), FALSE,
                 res, res.failed, res.ret)

CallGetCharacterTransactions ==
    \E days_back \in {30} :
        \E res \in {get_character_transactions(Manager, now, remote, days_back)} :
            Call("get_character_transactions", Some(<<days_back>>), FALSE,
                 res, res.failed, res.ret)

\* calculate_cost_basis(type_id, location_id); a location_id of 0 is "not given".
CallCalculateCostBasis ==
    \E type_id \in {34, 35}, location_id \in {0, station_id("Jita"), station_id("Amarr")} :
        Call("calculate_cost_basis", Some(<<type_id, location_id>>), FALSE,
             [m |-> Manager], FALSE, calculate_cost_basis(Manager, type_id, location_id))

\* calculate_actual_realized_profit(days_back), as the profit endpoint (7 days) and
\* analyze_all_warehouses (30 days) call it, and with one day.
CallCalculateActualRealizedProfit ==
    \E days_back \in {1, 7, 30} :
        \E res \in {calculate_actual_realized_profit(Manager, now, remote, days_back)} :
            Call("calculate_actual_realized_profit", Some(<<days_back>>), FALSE,
                 res, res.ret.error, Some(res.ret))

NextLedger ==
    \/ Tick
    \/ CallGetCorporationTransactions
    \/ CallGetCharacterTransactions
    \/ CallCalculateCostBasis
    \/ CallCalculateActualRealizedProfit

SpecLedger == InitLedger /\ [][NextLedger]_vars

\* ------------------------------- SpecFees: the fee methods of a manager
\* A manager without a client, its two fee skills at any levels a skills update can
\* leave them at.

InitFees ==
    /\ now = 0
    /\ remote \in AppRemotes
    /\ esi = NoTokens
    /\ warehouse_manager = "NoClient"
    /\ trading_skills \in {[DefaultSkills EXCEPT !.broker_relations = b, !.accounting = a] :
                              a \in 0..5, b \in 0..5}
    /\ transactions_cache = None
    /\ orders_cache = None
    /\ trade_data_cache = None
    /\ cache_timestamp = None
    /\ warehouse_cache = None
    /\ warehouse_cache_timestamp = None
    /\ last = NoCall
    /\ threads = NoThreads

\* calculate_broker_fee_rate(broker_relations_level): the level given, or the
\* manager's own when it is None.
CallCalculateBrokerFeeRate ==
    \E level \in {None} \cup {Some(l) : l \in 0..5} :
        Call("calculate_broker_fee_rate", level, FALSE, [m |-> Manager], FALSE,
             Some(calculate_broker_fee_rate(
                      IF level = None THEN trading_skills
                      ELSE [trading_skills EXCEPT !.broker_relations = level[1]])))

\* calculate_sales_tax_rate(accounting_level).
CallCalculateSalesTaxRate ==
    \E level \in {None} \cup {Some(l) : l \in 0..5} :
        Call("calculate_sales_tax_rate", level, FALSE, [m |-> Manager], FALSE,
             Some(calculate_sales_tax_rate(
                      IF level = None THEN trading_skills
                      ELSE [trading_skills EXCEPT !.accounting = level[1]])))

\* calculate_effective_buy_price(market_price) of a price in whole ISK; the result
\* in 1/10000 ISK.
CallCalculateEffectiveBuyPrice ==
    \E market_price \in 1..MaxPrice :
        Call("calculate_effective_buy_price", Some(market_price), FALSE, [m |-> Manager],
             FALSE, Some(calculate_effective_buy_price(market_price, trading_skills)))

\* calculate_effective_sell_price(market_price) of a price in 1/10000 ISK, a market
\* price or the result of the last calculate_effective_buy_price; the result in
\* 1/100000000 ISK.
CallCalculateEffectiveSellPrice ==
    \E market_price \in {price * 10000 : price \in 1..MaxPrice}
                          \cup (IF last.op = "calculate_effective_buy_price"
                                THEN {last.ret[1]} ELSE {}) :
        Call("calculate_effective_sell_price", Some(market_price), FALSE, [m |-> Manager],
             FALSE, Some(calculate_effective_sell_price(market_price, trading_skills)))

NextFees ==
    \/ CallCalculateBrokerFeeRate
    \/ CallCalculateSalesTaxRate
    \/ CallCalculateEffectiveBuyPrice
    \/ CallCalculateEffectiveSellPrice

SpecFees == InitFees /\ [][NextFees]_vars

\* ------------------------------------------------------------ Properties

\* C1: when GET /api/warehouse finds a stored payload younger than 600 seconds, the
\* response is exactly that payload, timestamp field included, the stored entry stays
\* as it is, and the all-hub analysis does not run: no request is sent and the
\* client's tokens and the manager's caches are untouched.
C1_WarehouseCacheHit ==
    [][(/\ warehouse_cache # None
        /\ warehouse_cache_timestamp # None
        /\ now - warehouse_cache_timestamp[1] < 600
        /\ last'.op = "get_warehouse_data"
        /\ now' = now)
       => (/\ last'.ret = warehouse_cache
           /\ last'.sent = {}
           /\ UNCHANGED <<warehouse_cache, warehouse_cache_timestamp, esi,
                          transactions_cache, orders_cache>>)]_vars

\* A stored payload with stock in it, answered again 300 seconds after it was built.
C1_Witness ==
    /\ last.op = "get_warehouse_data"
    /\ last.hit
    /\ last.ret = warehouse_cache
    /\ last.ret[1].timestamp < now
    /\ last.ret[1].data.summary.total_items_all_hubs > 0

\* A /api/trades step, by the rule of C2.
C2_TradeStep ==
    LET fresh == /\ trade_data_cache # None
                 /\ cache_timestamp # None
                 /\ now - cache_timestamp[1] < 300
        S == last'.arg[1]
        known == S = <<>> \/ Range(S) \cap analyzer_trade_hubs # {}
        stored == /\ trade_data_cache' # None
                  /\ trade_data_cache'[1] # <<>>
                  /\ cache_timestamp' = Some(now)
                  /\ last'.ret = Some(filter_opportunities(trade_data_cache'[1], S,
                                                           EndpointDefaults))
        kept == /\ UNCHANGED <<trade_data_cache, cache_timestamp>>
                /\ last'.ret = Some(<<>>)
    IN IF fresh
       THEN /\ last'.hit
            /\ last'.sent = {}
            /\ UNCHANGED <<trade_data_cache, cache_timestamp>>
            /\ last'.ret = Some(filter_opportunities(trade_data_cache[1], S,
                                                     EndpointDefaults))
       ELSE /\ ~last'.hit
            /\ (known /\ remote.types_ok) => last'.sent # {}
            /\ IF ~last'.raised /\ known THEN stored ELSE kept

\* A /api/warehouse step, by the rule of C2.
C2_WarehouseStep ==
    LET fresh == /\ warehouse_cache # None
                 /\ warehouse_cache_timestamp # None
                 /\ now - warehouse_cache_timestamp[1] < 600
    IN IF fresh
       THEN /\ last'.hit
            /\ UNCHANGED <<warehouse_cache, warehouse_cache_timestamp>>
            /\ last'.ret = warehouse_cache
       ELSE /\ ~last'.hit
            /\ (warehouse_manager' = "Client" /\ is_authenticated(esi)) => last'.sent # {}
            /\ warehouse_cache' # None
            /\ warehouse_cache'[1].success
            /\ warehouse_cache'[1].timestamp = now
            /\ warehouse_cache'[1].data.summary.hubs_analyzed = Len(HubNames)
            /\ warehouse_cache_timestamp' = Some(now)
            /\ last'.ret = warehouse_cache'

\* C2: both caches follow the same rule. An entry is used (the stored values stay, the
\* answer comes from them) exactly while now - timestamp < TTL, 300 seconds for the
\* trade cache and 600 for the warehouse cache. A request that finds no entry, or one
\* that old, recomputes: it asks the collaborators (the scanner loads the item table
\* first and asks the price service once that has loaded), and when the recomputation yields
\* a payload, that payload is stored with the current time and is what the answer is
\* made from; when it yields none, the stored values stay and the answer is empty.
C2_CacheTTL ==
    [][/\ (last'.op = "get_trades" /\ now' = now) => C2_TradeStep
       /\ (last'.op = "get_warehouse_data" /\ now' = now) => C2_WarehouseStep]_vars

\* At 600 seconds: the trade cache holds what a request at 300 seconds rebuilt, and a
\* /api/warehouse request has just rebuilt the warehouse payload, with stock in it.
C2_Witness ==
    /\ now = 600
    /\ last.op = "get_warehouse_data"
    /\ ~last.hit
    /\ warehouse_cache_timestamp = Some(600)
    /\ last.ret = warehouse_cache
    /\ last.ret[1].data.summary.total_items_all_hubs > 0
    /\ trade_data_cache # None
    /\ cache_timestamp = Some(300)

\* C3: a successful POST /api/warehouse/skills leaves warehouse_cache and
\* warehouse_cache_timestamp empty, and the /api/warehouse request that follows it,
\* however soon, does not answer from a stored payload: it runs the analysis with the
\* skill levels as they now are and stores that payload.
C3_SkillsUpdateInvalidates ==
    [][/\ (last'.op = "update_trading_skills" /\ ~last'.raised)
            => (warehouse_cache' = None /\ warehouse_cache_timestamp' = None)
       /\ (/\ last.op = "update_trading_skills"
           /\ ~last.raised
           /\ last'.op = "get_warehouse_data")
            => /\ ~last'.hit
               /\ last'.ret =
                      Some([success |-> TRUE,
                            data |-> analyze_all_warehouses(
                                         [Manager EXCEPT
                                              !.has_client = warehouse_manager' = "Client"],
                                         now, remote, last'.enhanced).ret,
                            timestamp |-> now])
               /\ warehouse_cache' = last'.ret
               /\ warehouse_cache_timestamp' = Some(now)]_vars

\* The recomputation after accounting was set to 0: the one item in stock is valued
\* with the sales tax of level 0.
C3_Witness ==
    /\ last.op = "get_warehouse_data"
    /\ ~last.hit
    /\ warehouse_manager = "Client"
    /\ trading_skills["accounting"] = 0
    /\ transactions_cache # None
    /\ LET items == last.ret[1].data.warehouse_data["Jita"].items
       IN /\ Len(items) = 1
          /\ items[1].effective_sell_price =
                 calculate_effective_sell_price(items[1].realistic_sell_price,
                     [DefaultSkills EXCEPT !["accounting"] = 0])
          /\ items[1].effective_sell_price #
                 calculate_effective_sell_price(items[1].realistic_sell_price, DefaultSkills)

\* C4: every level of trading_skills is an integer in 0..5 in every reachable state,
\* the skill names stay those of the defaults, and the clamp maps every integer into
\* 0..5.
C4_SkillLevelsInRange ==
    /\ DOMAIN trading_skills = DOMAIN DefaultSkills
    /\ \A skill \in DOMAIN trading_skills : trading_skills[skill] \in 0..5
    /\ \A level \in (0 - 10)..10 : clamp_level(level) \in 0..5

\* Levels of -1 and of 9 were submitted and stored as 0 and 5.
C4_Witness ==
    /\ last.op = "update_trading_skills"
    /\ ~last.raised
    /\ last.arg = Some(<< <<"broker_relations", Some(9)>>, <<"bogus", Some(2)>> >>)
    /\ trading_skills["broker_relations"] = 5
    /\ trading_skills["accounting"] = 0

\* C5: in the result of analyze_all_warehouses all five hubs appear and the call does
\* not raise; a hub whose own analysis raises has an entry with the error mark,
\* total_items 0 and no items, and every other hub's entry is the report of its own
\* analysis, whether it comes before or after the hub that raised.
C5_HubIsolation ==
    [][(last'.op = "analyze_all_warehouses" /\ now' = now) =>
          /\ ~last'.raised
          /\ DOMAIN last'.ret[1].warehouse_data = trade_hubs
          /\ \A hub \in trade_hubs :
                \E entry \in {last'.ret[1].warehouse_data[hub]},
                   own \in {analyze_warehouse_hub(Manager', now, remote, hub,
                                                  last'.enhanced)} :
                    IF own.raised
                    THEN /\ entry.error
                         /\ entry.hub_name = hub
                         /\ entry.total_items = 0
                         /\ entry.items = <<>>
                    ELSE /\ ~entry.error
                         /\ entry = own.ret[1]]_vars

\* The analysis of Rens raised on its malformed asset row; Hek, analysed after it,
\* reports its stock.
C5_Witness ==
    /\ last.op = "analyze_all_warehouses"
    /\ last.ret[1].warehouse_data["Rens"].error
    /\ ~last.ret[1].warehouse_data["Hek"].error
    /\ last.ret[1].warehouse_data["Hek"].total_items = 1
    /\ last.ret[1].warehouse_data["Jita"].kind = "empty"

\* C6: get_market_prices keeps, for every type of the batch whose order-book fetch
\* answered, that type's computed price entry, whatever happened to the other types
\* of the batch; and it does not raise.
C6_MarketPriceBatchIsolation ==
    last.op = "get_market_prices" =>
        /\ ~last.raised
        /\ \A type_id \in Range(last.arg[1]) \ remote.market_down :
              /\ type_id \in DOMAIN last.ret
              /\ last.ret[type_id] = PriceEntry(OrderBook(type_id))

\* C7: a request that names a hub outside the five configured ones is rejected with an
\* error before anything is fetched: the per-hub warehouse analysis raises and sends
\* nothing, and the scanner, given a selection with such a name in it, reports an
\* error, fetches nothing and returns no opportunities.
C7_UnknownHubRejected ==
    /\ (last.op = "get_warehouse_hub_data" /\ last.arg[1] \notin trade_hubs)
          => (last.raised /\ last.sent = {})
    /\ (last.op = "get_trades" /\ ~last.hit /\ Range(last.arg[1]) \ analyzer_trade_hubs # {})
          => (last.raised /\ last.sent = {} /\ last.ret = Some(<<>>))

\* C8: with no client, or a client that is not authenticated, the character and
\* corporation asset fetches and the order fetch return the empty list, do not raise
\* and send no request.
C8_UnauthenticatedFetchIsEmpty ==
    (/\ last.op \in {"get_character_assets", "get_corporation_assets", "get_character_orders"}
     /\ ~(warehouse_manager = "Client" /\ is_authenticated(esi)))
        => (last.ret = <<>> /\ ~last.raised /\ last.sent = {})

\* A client holding an access token but no refresh token is asked for the corporation
\* assets while the remote holds stock at a hub: nothing is sent, nothing returned.
C8_Witness ==
    /\ last.op = "get_corporation_assets"
    /\ warehouse_manager = "Client"
    /\ esi.access_token # ""
    /\ ~is_authenticated(esi)
    /\ remote.esi_up
    /\ \E i \in 1..Len(remote.assets) : InHubStation(remote.assets[i])
    /\ last.ret = <<>>
    /\ last.sent = {}

\* C9: every opportunity returned for a non-empty hub selection S has both its
\* max_tradehub and its min_tradehub in S. (Stated for selections of configured
\* hubs, where nothing but the selection rule decides the answer.)
C9_OpportunitiesWithinSelection ==
    (/\ last.op = "get_trades"
     /\ last.arg[1] # <<>>
     /\ Range(last.arg[1]) \subseteq analyzer_trade_hubs) =>
        \A i \in 1..Len(last.ret[1]) :
            /\ last.ret[1][i].max_tradehub \in Range(last.arg[1])
            /\ last.ret[1][i].min_tradehub \in Range(last.arg[1])

\* C10: no authenticated request is sent with an access token whose recorded expiry
\* had passed while a refresh token existed.
C10_NoStaleTokenSent ==
    \A req \in last.sent : req.auth => ~req.stale


\* C11: the check of a cache and the write of its entry are one critical section per
\* cache: of two requests for the same cache that run at the same time, at most one
\* is past a check that found the cache empty or expired and has not yet finished
\* storing the entry it recomputes.
C11_SingleRecomputation ==
    \A a, b \in Threads :
        (a # b /\ threads[a].op = threads[b].op
               /\ threads[a].op \in {"get_trades", "get_warehouse_data"})
        => ~(/\ threads[a].pc \in {"recompute", "store_cache", "store_timestamp"}
             /\ threads[b].pc \in {"recompute", "store_cache", "store_timestamp"})

\* C12: two _ensure_valid_token calls that both found the token expired, with a
\* refresh token on file and the token endpoint answering: once both have returned,
\* neither has raised, the client holds an access token, its token_expires is later
\* than the time of either check, and the refresh token is the one it had.
C12_ConcurrentRefreshIdempotent ==
    \A a, b \in Threads :
        (/\ a # b
         /\ At(a, "ensure_valid_token", "done") /\ threads[a].seen # None
         /\ At(b, "ensure_valid_token", "done") /\ threads[b].seen # None
         /\ remote.sso_up /\ esi.refresh_token # "")
        => /\ ~threads[a].raised /\ ~threads[b].raised
           /\ esi.access_token # ""
           /\ esi.token_expires # None
           /\ esi.token_expires[1] > threads[a].seen[1]
           /\ esi.token_expires[1] > threads[b].seen[1]
           /\ esi.refresh_token = "refresh"

\* Both calls have returned; one found the token expired at 0 seconds, the other at
\* 300 seconds, before the first had stored its new expiry.
C12_Witness ==
    /\ At("a", "ensure_valid_token", "done") /\ threads["a"].seen = Some(0)
    /\ At("b", "ensure_valid_token", "done") /\ threads["b"].seen = Some(CACHE_DURATION)
    /\ ~threads["a"].raised /\ ~threads["b"].raised
    /\ esi.access_token = "refreshed"

\* C13: a transaction fetch that succeeded leaves transactions_cache equal to the
\* rows of that fetch inside its time window, an empty result included (a cache that
\* was never filled may stay unset when the result is empty): no row of an earlier
\* fetch remains.
C13_RefetchReplacesCache ==
    (last.op \in {"get_corporation_transactions", "get_character_transactions"}
     /\ ~last.raised)
    => \/ transactions_cache = Some(last.ret)
       \/ last.ret = <<>> /\ transactions_cache = None

\* C16: calculate_actual_realized_profit, called by an authenticated manager while
\* the ESI answers, returns revenue minus fees minus cost of goods sold over the sell
\* transactions of the corporation's ledger in the window: revenue is quantity times
\* unit price, fees are revenue times (broker rate + sales tax rate) / 100, and the
\* cost of goods sold is quantity times the average purchase price of the type at
\* that location where one is known.
C16_RealizedProfitFormula ==
    (last.op = "calculate_actual_realized_profit" /\ is_authenticated(esi)
     /\ remote.esi_up)
    => LET days_back == last.arg[1][1]
           InWindow(x) == x.date >= now - days_back * SECONDS_PER_DAY
           rows == SelectSeq(remote.txns, InWindow)
           IsSell(x) == ~x.is_buy
           sells == SelectSeq(rows, IsSell)
           rate == calculate_broker_fee_rate(trading_skills)
                     + calculate_sales_tax_rate(trading_skills)
           basis(x) == calculate_cost_basis([transactions_cache |-> Some(rows)],
                                            x.type_id, x.location_id)
           profit(x) == x.quantity * x.unit_price * 10000
                          - x.quantity * x.unit_price * rate
                          - (IF basis(x) = None THEN 0
                             ELSE x.quantity * basis(x)[1].average_cost * 10000)
       IN last.ret[1].total_realized_profit
            = Round2(SumSeq([i \in 1..Len(sells) |-> profit(sells[i])]))

\* C17: calculate_cost_basis reads transactions_cache and nothing else: no request
\* is sent and no field changes. Over the cached purchases of the type (at the
\* location, when one is given) it returns their count, their total quantity, their
\* total cost and total cost / total quantity; with no such purchase, or no cache, it
\* returns none.
C17_CostBasisOverCachedBuys ==
    [][(last'.op = "calculate_cost_basis" /\ now' = now) =>
          LET type_id == last'.arg[1][1]
              location_id == last'.arg[1][2]
              cache == IF transactions_cache = None THEN <<>> ELSE transactions_cache[1]
              buys == {i \in DOMAIN cache :
                          /\ cache[i].is_buy
                          /\ cache[i].type_id = type_id
                          /\ (location_id # 0 => cache[i].location_id = location_id)}
              RECURSIVE Total(_, _)
              Total(S, f) == IF S = {} THEN 0
                             ELSE LET i == CHOOSE j \in S : TRUE
                                  IN f[i] + Total(S \ {i}, f)
              quantity == Total(buys, [i \in DOMAIN cache |-> cache[i].quantity])
              cost == Total(buys, [i \in DOMAIN cache |->
                                      cache[i].unit_price * cache[i].quantity])
          IN /\ last'.sent = {}
             /\ transactions_cache' = transactions_cache
             /\ esi' = esi
             /\ IF buys = {} THEN last'.ret = None
                ELSE last'.ret = Some([average_cost |-> cost \div quantity,
                                       total_purchased |-> quantity,
                                       total_cost |-> cost,
                                       purchase_count |-> Cardinality(buys)])]_vars

\* The cache holds the ledger of the last 60 days, a sale among it; the cost basis
\* of Tritanium at Jita is 1650 / 15 = 110 over two purchases.
C17_Witness ==
    /\ last.op = "calculate_cost_basis"
    /\ last.arg = Some(<<34, station_id("Jita")>>)
    /\ transactions_cache # None
    /\ Len(transactions_cache[1]) = 3
    /\ last.ret = Some([average_cost |-> 110, total_purchased |-> 15,
                        total_cost |-> 1650, purchase_count |-> 2])

\* C14: the body of a dashboard endpoint carries a boolean "success" (checked for
\* the endpoints whose whole body the model keeps: the wallet snapshot, the profit
\* history and the warehouse summary).
C14_BodyHasSuccess ==
    last.op \in {"get_wallet_info", "get_profit_history", "get_warehouse_data"}
    => /\ last.ret # None
       /\ "success" \in DOMAIN last.ret[1]
       /\ last.ret[1].success \in BOOLEAN

\* C15: the wallet endpoint reports a character balance other than 0 only when the
\* remote API answered the wallet request, and then the balance it answered; the
\* profit history carries no profit and no trade count that was not computed from
\* the ledger.
C15_NoFabricatedFigures ==
    /\ last.op = "get_wallet_info"
       => \/ last.ret[1].char_wallet = 0
          \/ /\ remote.esi_up
             /\ \E req \in last.sent : req.endpoint = "character_wallet"
             /\ Some(last.ret[1].char_wallet) = get_character_wallet(esi, now, remote).ret
    /\ last.op = "get_profit_history"
       => \A i \in DOMAIN last.ret[1].daily_profits :
              /\ last.ret[1].daily_profits[i].profit = 0
              /\ last.ret[1].daily_profits[i].trades = 0

\* C18: at every level 0..5 the broker fee rate is max(3.0 - 0.1 * level, 2.5), that
\* is 3.0, 2.9, 2.8, 2.7, 2.6, 2.5 percent, and the sales tax rate is
\* max(8.0 * (1 - 0.11 * level), 4.5), that is 8.0, 7.12, 6.24, 5.36, 4.5, 4.5
\* percent: the one within [2.5, 3.0], the other within [4.5, 8.0], and neither
\* higher at a level than at the level below it.
C18_FeeRatesBoundedMonotone ==
    LET level == IF last.arg # None THEN last.arg[1]
                 ELSE IF last.op = "calculate_broker_fee_rate"
                 THEN trading_skills["broker_relations"]
                 ELSE trading_skills["accounting"]
        broker == <<300, 290, 280, 270, 260, 250>>
        tax == <<800, 712, 624, 536, 450, 450>>
        below(op) == IF op = "calculate_broker_fee_rate"
                     THEN calculate_broker_fee_rate(
                              [trading_skills EXCEPT !.broker_relations = level - 1])
                     ELSE calculate_sales_tax_rate(
                              [trading_skills EXCEPT !.accounting = level - 1])
    IN /\ last.op = "calculate_broker_fee_rate"
          => /\ last.ret[1] = broker[level + 1]
             /\ last.ret[1] \in 250..300
             /\ level > 0 => last.ret[1] <= below(last.op)
       /\ last.op = "calculate_sales_tax_rate"
          => /\ last.ret[1] = tax[level + 1]
             /\ last.ret[1] \in 450..800
             /\ level > 0 => last.ret[1] <= below(last.op)

\* The sales tax rate asked for Accounting IV, where the floor of 4.5 percent applies.
C18_Witness ==
    /\ last.op = "calculate_sales_tax_rate"
    /\ last.arg = Some(4)
    /\ last.ret = Some(450)

\* C19: whatever the two skill levels, the effective sell price of the effective buy
\* price of a market price p > 0 is below p.
C19_RoundTripLosesMoney ==
    [][(/\ last.op = "calculate_effective_buy_price"
        /\ last'.op = "calculate_effective_sell_price"
        /\ last'.arg = last.ret)
       => last'.ret[1] < last.arg[1] * 10000 * 10000]_vars

\* With no skills trained (3 percent broker fee, 8 percent sales tax), 10 ISK bought
\* at 10.3 and sold again yields 10.3 * 0.89 = 9.167 ISK.
C19_Witness ==
    /\ trading_skills["broker_relations"] = 0
    /\ trading_skills["accounting"] = 0
    /\ last.op = "calculate_effective_sell_price"
    /\ last.arg = Some(103000)
    /\ last.ret = Some(916700000)

\* C20: the table a /api/trades request builds from the hubs it fetched has one row
\* per item type found in them; the row's max_price and min_price are the highest
\* and the lowest avg_price_yesterday of the type over those hubs, delta is their
\* difference, delta_percentage is delta / min_price * 100 to two decimals (0 when
\* min_price is 0), and max_tradehub and min_tradehub are fetched hubs that quote the
\* extremes, with the volumes those hubs report.
C20_PriceDeltaReduction ==
    [][(last'.op = "get_trades" /\ now' = now /\ ~last'.hit /\ ~last'.raised
        /\ last'.sent # {})
       => LET selected == last'.arg[1]
              hubs == IF selected = <<>> THEN analyzer_trade_hubs
                      ELSE Range(selected) \cap analyzer_trade_hubs
              Quotes(t) == UNION {{<<h, x>> : x \in {y \in Range(Snapshot(h)) : y.typeid = t}} :
                                     h \in hubs}
              types == UNION {{x.typeid : x \in Range(Snapshot(h))} : h \in hubs}
              table == trade_data_cache'[1]
          IN /\ cache_timestamp' = Some(now)
             /\ Len(table) = Cardinality(types)
             /\ {table[i].typeid : i \in DOMAIN table} = types
             /\ \A i \in DOMAIN table :
                   LET row == table[i]
                       quotes == Quotes(row.typeid)
                   IN /\ \A q \in quotes :
                            /\ q[2].avg_price_yesterday <= row.max_price
                            /\ q[2].avg_price_yesterday >= row.min_price
                      /\ <<row.max_tradehub,
                           [typeid |-> row.typeid, avg_price_yesterday |-> row.max_price,
                            vol_yesterday |-> row.max_vol_yesterday]>> \in quotes
                      /\ <<row.min_tradehub,
                           [typeid |-> row.typeid, avg_price_yesterday |-> row.min_price,
                            vol_yesterday |-> row.min_vol_yesterday]>> \in quotes
                      /\ row.delta = row.max_price - row.min_price
                      /\ IF row.min_price = 0 THEN row.delta_percentage = 0
                         ELSE 2 * (IF row.delta_percentage * row.min_price
                                        >= row.delta * 10000
                                   THEN row.delta_percentage * row.min_price
                                          - row.delta * 10000
                                   ELSE row.delta * 10000
                                          - row.delta_percentage * row.min_price)
                                <= row.min_price]_vars

\* The request for Jita (Tritanium at 100) and Amarr (at 150) has built its table:
\* delta 50, delta_percentage 50.0, the high end at Amarr and the low end at Jita;
\* the row of type 36, quoted at 0 in Jita alone, has margin 0.
C20_Witness ==
    /\ last.op = "get_trades" /\ ~last.hit /\ last.arg = Some(<<"Jita", "Amarr">>)
    /\ trade_data_cache # None
    /\ \E i, j \in DOMAIN trade_data_cache[1] :
          /\ trade_data_cache[1][i].typeid = 34
          /\ trade_data_cache[1][i].delta = 50
          /\ trade_data_cache[1][i].delta_percentage = 5000
          /\ trade_data_cache[1][i].max_tradehub = "Amarr"
          /\ trade_data_cache[1][i].min_tradehub = "Jita"
          /\ trade_data_cache[1][i].max_vol_yesterday = 90
          /\ trade_data_cache[1][i].min_vol_yesterday = 80
          /\ trade_data_cache[1][j].typeid = 36
          /\ trade_data_cache[1][j].min_price = 0
          /\ trade_data_cache[1][j].delta_percentage = 0

\* ------------------------------------- The scanner's two filters (SpecScan)

\* The thresholds of the standalone report; the margins in hundredths of a percent.
ReportThresholds ==
    [Vol_DAY_min |-> 75, Vol_DAY_max |-> 75, DeltaPercentage_min |-> 2000,
     DeltaPercentage_max |-> 150000, MinPrice_Item |-> 100000]

\* The standalone report's RegionTrade from the table of deltas: the rows without a
\* TYPENAME are dropped, then the five threshold filters, then the sort by margin.
RegionTrade(result) ==
    LET T == ReportThresholds
        Named(x) == x.typename # None
        Keep(x) ==
            /\ x.min_vol_yesterday > T.Vol_DAY_min
            /\ x.max_vol_yesterday > T.Vol_DAY_max
            /\ x.delta_percentage > T.DeltaPercentage_min
            /\ x.delta_percentage < T.DeltaPercentage_max
            /\ x.min_price > T.MinPrice_Item
        rows == SortByMargin(SelectSeq(SelectSeq(result, Named), Keep))
    IN [i \in 1..Len(rows) |-> [rows[i] EXCEPT !.typename = rows[i].typename[1]]]

\* The thresholds a /api/trades request can name: the endpoint's defaults, the
\* report's thresholds, and the report's thresholds with every optional bound given.
ScanFilters ==
    {EndpointDefaults,
     [min_margin |-> 2000, max_margin |-> 150000, min_volume |-> 75, max_volume |-> None,
      min_price |-> 100000, max_price |-> None, min_profit |-> None, max_profit |-> None],
     [min_margin |-> 2000, max_margin |-> 150000, min_volume |-> 75,
      max_volume |-> Some(76), min_price |-> 100000, max_price |-> Some(125000),
      min_profit |-> Some(20000), max_profit |-> Some(25000)]}

\* Tables of deltas of one type, as calculate_deltas leaves them: the cheapest and the
\* dearest hub's price with the margin that round(delta / min_price * 100, 2) gives
\* (in hundredths of a percent), and both hubs' volumes, on and around the thresholds.
ScanTables ==
    LET Prices == {<<100000, 120000, 2000>>, <<100000, 120010, 2001>>,
                   <<100000, 119990, 1999>>, <<99999, 125000, 2500>>,
                   <<100001, 125000, 2500>>, <<100000, 1600000, 150000>>}
        Volumes == {74, 75, 76}
    IN {<< [typeid |-> 34, max_price |-> p[2], min_price |-> p[1],
            delta |-> p[2] - p[1], delta_percentage |-> p[3],
            max_tradehub |-> "Amarr", min_tradehub |-> h,
            max_vol_yesterday |-> v, min_vol_yesterday |-> w,
            typename |-> TypeName(34)] >> :
           p \in Prices, v \in Volumes, w \in Volumes, h \in {"Jita", "Rens"}}

\* The analyzer holds a fresh table of deltas.
InitScan ==
    /\ now = 0
    /\ remote \in {r \in AppRemotes : r.types_ok}
    /\ esi = NoTokens
    /\ warehouse_manager = "None"
    /\ trading_skills = DefaultSkills
    /\ transactions_cache = None
    /\ orders_cache = None
    /\ trade_data_cache \in {Some(t) : t \in ScanTables}
    /\ cache_timestamp = Some(0)
    /\ warehouse_cache = None
    /\ warehouse_cache_timestamp = None
    /\ last = NoCall
    /\ threads = NoThreads

\* GET /api/trades with thresholds in the query string.
GetTradesFiltered ==
    \E selected_hubs \in {<<>>, <<"Jita", "Amarr">>}, f \in ScanFilters :
        \E res \in {get_trade_opportunities(trade_data_cache, cache_timestamp, now,
                                             remote, selected_hubs, f)} :
           /\ trade_data_cache' = res.cache
           /\ cache_timestamp' = res.timestamp
           /\ last' = [op |-> "get_trades",
                       arg |-> Some([f |-> f, hubs |-> selected_hubs]),
                       enhanced |-> FALSE, raised |-> res.raised, ret |-> Some(res.ret),
                       sent |-> {}, hit |-> res.hit]
           /\ UNCHANGED <<now, remote, esi, warehouse_manager, trading_skills,
                          transactions_cache, orders_cache, warehouse_cache,
                          warehouse_cache_timestamp, threads>>

\* One run of the standalone report over the same table of deltas; arg is the
\* report's thresholds in the endpoint's terms.
RunTradeHubReport ==
    /\ trade_data_cache # None
    /\ last' = [op |-> "TradeHub_API",
                arg |-> Some([f |-> [EndpointDefaults EXCEPT
                                        !.min_margin = ReportThresholds.DeltaPercentage_min,
                                        !.max_margin = ReportThresholds.DeltaPercentage_max,
                                        !.min_volume = ReportThresholds.Vol_DAY_min,
                                        !.min_price = ReportThresholds.MinPrice_Item],
                              hubs |-> <<>>]),
                enhanced |-> FALSE, raised |-> FALSE,
                ret |-> Some(RegionTrade(trade_data_cache[1])),
                sent |-> {PublicRequest("mokaam")}, hit |-> FALSE]
    /\ UNCHANGED <<now, remote, esi, warehouse_manager, trading_skills,
                   transactions_cache, orders_cache, trade_data_cache, cache_timestamp,
                   warehouse_cache, warehouse_cache_timestamp, threads>>

NextScan == GetTradesFiltered \/ RunTradeHubReport

SpecScan == InitScan /\ [][NextScan]_vars

\* The rows of a table that an all-inclusive conjunction of the thresholds f and the
\* hub selection keeps.
InclusiveKeep(data, selected_hubs, f) ==
    {i \in 1..Len(data) :
        /\ data[i].typename # None
        /\ data[i].min_vol_yesterday >= f.min_volume
        /\ data[i].max_vol_yesterday >= f.min_volume
        /\ (f.max_volume # None =>
                /\ data[i].min_vol_yesterday <= f.max_volume[1]
                /\ data[i].max_vol_yesterday <= f.max_volume[1])
        /\ data[i].delta_percentage >= f.min_margin
        /\ data[i].delta_percentage <= f.max_margin
        /\ data[i].min_price >= f.min_price
        /\ (f.max_price # None => data[i].max_price <= f.max_price[1])
        /\ (f.min_profit # None => data[i].delta >= f.min_profit[1])
        /\ (f.max_profit # None => data[i].delta <= f.max_profit[1])
        /\ (Len(selected_hubs) > 1 =>
                /\ data[i].min_tradehub \in Range(selected_hubs)
                /\ data[i].max_tradehub \in Range(selected_hubs))}

\* C21: in the live endpoint and in the standalone report alike, an item is kept
\* exactly when it meets every threshold with inclusive bounds, so that an item
\* sitting on a threshold (volume 75, margin 20 %, price 100000) is in the result.
C21_InclusiveConjunction ==
    last.op \in {"get_trades", "TradeHub_API"} =>
        LET a == last.arg[1]
            data == trade_data_cache[1]
        IN {last.ret[1][i].typeid : i \in 1..Len(last.ret[1])} =
           {data[i].typeid : i \in InclusiveKeep(data, a.hubs, a.f)}

\* The live endpoint's half of C21 on its own.
C21_EndpointInclusive ==
    last.op = "get_trades" =>
        LET a == last.arg[1]
            data == trade_data_cache[1]
        IN {last.ret[1][i].typeid : i \in 1..Len(last.ret[1])} =
           {data[i].typeid : i \in InclusiveKeep(data, a.hubs, a.f)}

\* The endpoint returns an item that sits on every threshold it was given.
C21_EndpointOnThreshold ==
    /\ last.op = "get_trades"
    /\ last.arg[1].f.min_volume = 75
    /\ trade_data_cache[1][1].min_vol_yesterday = 75
    /\ trade_data_cache[1][1].delta_percentage = 2000
    /\ trade_data_cache[1][1].min_price = 100000
    /\ Len(last.ret[1]) = 1

\* C22: analyze_warehouse_hub for a configured hub at which the manager finds no
\* asset (the listing has no row at the hub's station, or there is nothing to fetch
\* with) raises nothing and returns total_items = 0, no items and 0 ISK in orders,
\* with and without the enhanced analysis, whatever the ledger and order fetches gave.
C22_EmptyHubReport ==
    (/\ last.op = "analyze_warehouse_hub"
     /\ last.arg[1] \in trade_hubs
     /\ \/ \A i \in 1..Len(remote.assets) :
               remote.assets[i].location_id # station_id(last.arg[1])
        \/ warehouse_manager = "NoClient"
        \/ ~remote.esi_up)
    => /\ ~last.raised
       /\ last.ret # None
       /\ last.ret[1].total_items = 0
       /\ last.ret[1].items = <<>>
       /\ last.ret[1].isk_in_orders = 0
       /\ last.ret[1].total_actual_value = 0

\* An enhanced analysis of Jita, where the listing has no row, after the order fetch
\* brought open orders at Jita's station: the report is the zero report.
C22_Witness ==
    /\ last.op = "analyze_warehouse_hub"
    /\ last.arg = Some("Jita")
    /\ last.enhanced
    /\ remote.assets # <<>>
    /\ \A i \in 1..Len(remote.assets) : remote.assets[i].location_id # station_id("Jita")
    /\ orders_cache # None
    /\ \E i \in 1..Len(orders_cache[1]) :
           /\ orders_cache[1][i].location_id = station_id("Jita")
           /\ orders_cache[1][i].is_buy_order
    /\ ~last.raised
    /\ last.ret[1].total_items = 0
    /\ last.ret[1].isk_in_orders = 0

\* ---------------------- One analysis cycle, statement by statement (SpecCycle)
\* analyze_all_warehouses runs on thread "a". local holds the locals of the call:
\* i, the index of the hub being analysed; enhanced; stages, the stages performed so
\* far for that hub; hub_assets, orders, market_prices and analyzed, the locals of
\* analyze_warehouse_hub; data, all_warehouse_data; courier, the courier metrics.
\* seen keeps the manager as it was when the call began.

Cycle == threads["a"]

CycleStep(pc, local, m) ==
    /\ Goto("a", "analyze_all_warehouses", pc, Cycle.seen, local, FALSE)
    /\ Commit(m)
    /\ UNCHANGED <<now, remote, warehouse_manager, trading_skills, Dashboard, last>>

\* "all_warehouse_data[hub_name] = ..." and the next turn of the loop over trade_hubs.
StoreHubReport(L, stages, report, m) ==
    CycleStep(IF L.i = Len(HubNames) THEN "AGGREGATE_ALL_HUBS" ELSE "FETCH_ASSETS",
              [L EXCEPT !.data = (HubNames[L.i] :> report) @@ @, !.i = @ + 1,
                        !.stages = stages], m)

\* The call begins: the courier contracts are fetched before the loop.
StartAnalysis ==
    /\ Cycle.pc = "idle"
    /\ \E enhanced \in BOOLEAN :
       \E c \in {get_courier_contracts(Manager, now, remote)} :
           /\ Goto("a", "analyze_all_warehouses", "FETCH_ASSETS", Some(Manager),
                   [i |-> 1, enhanced |-> enhanced, stages |-> <<>>, hub_assets |-> <<>>,
                    orders |-> <<>>, market_prices |-> EmptyPrices, analyzed |-> <<>>,
                    data |-> EmptyPrices, courier |-> c.ret], FALSE)
           /\ Commit(c.m)
    /\ UNCHANGED <<now, remote, warehouse_manager, trading_skills, Dashboard, last>>

\* analyze_warehouse_hub, "all_assets = await self.get_all_assets(...)" and the
\* selection of the hub's assets.
StageFetchAssets ==
    /\ At("a", "analyze_all_warehouses", "FETCH_ASSETS")
    /\ LET L == Cycle.local
           AtHub(x) == x.trade_hub = HubNames[L.i]
       IN \E a \in {get_all_assets(Manager, now, remote, FALSE)} :
              CycleStep(IF L.enhanced THEN "FETCH_COST_BASIS" ELSE "FETCH_MARKET",
                        [L EXCEPT !.stages = <<"FETCH_ASSETS">>,
                                  !.hub_assets = SelectSeq(a.ret, AtHub),
                                  !.orders = <<>>, !.market_prices = EmptyPrices,
                                  !.analyzed = <<>>], a.m)

\* "await self.get_all_transactions(days_back=30, asset_source='corporation')": the
\* ledger the cost basis is computed from.
StageFetchCostBasis ==
    /\ At("a", "analyze_all_warehouses", "FETCH_COST_BASIS")
    /\ LET L == Cycle.local
       IN \E tx \in {get_all_transactions(Manager, now, remote, 30)} :
              CycleStep("FETCH_ORDERS",
                        [L EXCEPT !.stages = Append(@, "FETCH_COST_BASIS")], tx.m)

\* "orders_df = await self.get_character_orders()".
StageFetchOrders ==
    /\ At("a", "analyze_all_warehouses", "FETCH_ORDERS")
    /\ LET L == Cycle.local
       IN \E od \in {get_character_orders(Manager, now, remote)} :
              CycleStep("FETCH_MARKET",
                        [L EXCEPT !.stages = Append(@, "FETCH_ORDERS"),
                                  !.orders = od.ret], od.m)

\* "if not hub_assets: return {...}".
ReturnEmptyReport ==
    /\ At("a", "analyze_all_warehouses", "FETCH_MARKET")
    /\ Cycle.local.hub_assets = <<>>
    /\ LET L == Cycle.local
       IN StoreHubReport(L, L.stages,
                         HubReport("empty", HubNames[L.i], <<>>, 0, 0, NoOrdersSummary, None),
                         Manager)

\* "market_prices = self.get_market_prices(hub_data['region_id'], type_ids)".
StageFetchMarket ==
    /\ At("a", "analyze_all_warehouses", "FETCH_MARKET")
    /\ Cycle.local.hub_assets # <<>>
    /\ LET L == Cycle.local
       IN CycleStep("COMPUTE_ITEMS",
                    [L EXCEPT !.stages = Append(@, "FETCH_MARKET"),
                              !.market_prices =
                                  get_market_prices(region_id(HubNames[L.i]),
                                                    TypeIds(L.hub_assets), remote)],
                    Manager)

\* The loop over hub_assets. An asset without a quantity raises, and the loop of
\* analyze_all_warehouses stores the error entry for the hub.
StageComputeItems ==
    /\ At("a", "analyze_all_warehouses", "COMPUTE_ITEMS")
    /\ LET L == Cycle.local
           stages == Append(L.stages, "COMPUTE_ITEMS")
       IN IF \E i \in 1..Len(L.hub_assets) : L.hub_assets[i].quantity = None
          THEN StoreHubReport(L, stages, ErrorReport(HubNames[L.i], L.enhanced), Manager)
          ELSE CycleStep("AGGREGATE_HUB",
                         [L EXCEPT !.stages = stages,
                                   !.analyzed =
                                       [i \in 1..Len(L.hub_assets) |->
                                           ItemAnalysis(Manager, remote, HubNames[L.i],
                                                        L.hub_assets[i], L.market_prices,
                                                        L.orders, L.enhanced)]],
                         Manager)

\* The sort of the items and the hub's report.
StageAggregateHub ==
    /\ At("a", "analyze_all_warehouses", "AGGREGATE_HUB")
    /\ LET L == Cycle.local
           total_value ==
               SumSeq([i \in 1..Len(L.analyzed) |-> L.analyzed[i].current_value_raw])
           total_actual_value ==
               SumSeq([i \in 1..Len(L.analyzed) |-> L.analyzed[i].actual_value_raw])
       IN StoreHubReport(L, Append(L.stages, "AGGREGATE_HUB"),
                         HubReport("full", HubNames[L.i], SortByProfit(L.analyzed),
                                   Round2(total_value), Round2(total_actual_value),
                                   analyze_active_orders(station_id(HubNames[L.i]), L.orders),
                                   Some(L.enhanced)),
                         Manager)

\* analyze_all_warehouses, "total_theoretical_value = sum(...)" after the loop.
StageAggregateAllHubs ==
    /\ At("a", "analyze_all_warehouses", "AGGREGATE_ALL_HUBS")
    /\ CycleStep("RECONCILE_REALIZED_PROFIT", Cycle.local, Manager)

\* "realized_profit_data = self.calculate_actual_realized_profit(days_back=30)", the
\* remaining totals and the return.
StageReconcileRealizedProfit ==
    /\ At("a", "analyze_all_warehouses", "RECONCILE_REALIZED_PROFIT")
    /\ LET L == Cycle.local
       IN \E p \in {calculate_actual_realized_profit(Manager, now, remote, 30)} :
              /\ Commit(p.m)
              /\ last' = [op |-> "analyze_all_warehouses", arg |-> Cycle.seen,
                          enhanced |-> L.enhanced, raised |-> FALSE,
                          ret |-> Some([warehouse_data |-> L.data,
                                        courier_contracts |-> L.courier,
                                        realized_profit_details |-> p.ret]),
                          sent |-> {}, hit |-> FALSE]
    /\ threads' = [threads EXCEPT !["a"] = Idle]
    /\ UNCHANGED <<now, remote, warehouse_manager, trading_skills, Dashboard>>

InitCycle ==
    /\ now = 0
    /\ remote \in {r \in Remotes : r.sso_up}
    /\ warehouse_manager = "Client"
    /\ esi \in StoredTokens
    /\ trading_skills = DefaultSkills
    /\ transactions_cache = None
    /\ orders_cache = None
    /\ trade_data_cache = None
    /\ cache_timestamp = None
    /\ warehouse_cache = None
    /\ warehouse_cache_timestamp = None
    /\ last = NoCall
    /\ threads = NoThreads

NextCycle ==
    \/ StartAnalysis
    \/ StageFetchAssets
    \/ StageFetchCostBasis
    \/ StageFetchOrders
    \/ ReturnEmptyReport
    \/ StageFetchMarket
    \/ StageComputeItems
    \/ StageAggregateHub
    \/ StageAggregateAllHubs
    \/ StageReconcileRealizedProfit

SpecCycle == InitCycle /\ [][NextCycle]_vars

\* The statement-by-statement cycle returns what the call returns as a whole.
CycleMatchesCall ==
    [][At("a", "analyze_all_warehouses", "RECONCILE_REALIZED_PROFIT")
         /\ threads'["a"].pc = "idle"
       => LET whole == analyze_all_warehouses(Cycle.seen[1], now, remote,
                                              Cycle.local.enhanced)
          IN /\ last'.ret[1].warehouse_data = whole.ret.warehouse_data
             /\ last'.ret[1].realized_profit_details = whole.ret.realized_profit_details
             /\ esi' = whole.m.esi
             /\ transactions_cache' = whole.m.transactions_cache
             /\ orders_cache' = whole.m.orders_cache]_vars

\* The order of stages the specification gives for one hub's cycle.
StageOrder(enhanced) ==
    IF enhanced
    THEN <<"FETCH_ASSETS", "FETCH_MARKET", "FETCH_COST_BASIS", "FETCH_ORDERS",
           "COMPUTE_ITEMS", "AGGREGATE_HUB">>
    ELSE <<"FETCH_ASSETS", "FETCH_MARKET", "COMPUTE_ITEMS", "AGGREGATE_HUB">>

\* The all-hub half of C23: aggregation and reconciliation begin only when every
\* hub has its report.
C23_AllHubsFirst ==
    Cycle.pc \in {"AGGREGATE_ALL_HUBS", "RECONCILE_REALIZED_PROFIT"} =>
        DOMAIN Cycle.local.data = trade_hubs

\* C23: the stages performed for a hub are, in order, FETCH_ASSETS, FETCH_MARKET,
\* FETCH_COST_BASIS and FETCH_ORDERS (both only if enhanced), COMPUTE_ITEMS and
\* AGGREGATE_HUB, a cycle that ends early having performed a beginning of that
\* order; the all-hub aggregation and the reconciliation of the realized profit run
\* only after every hub has been analysed.
C23_StageOrder ==
    /\ Cycle.op = "analyze_all_warehouses" =>
           LET done == Cycle.local.stages
               order == StageOrder(Cycle.local.enhanced)
           IN Len(done) <= Len(order) /\ done = SubSeq(order, 1, Len(done))
    /\ C23_AllHubsFirst

\* -------------------------- The items of one hub's report (SpecItems)

\* The rows a listing at Jita's station is drawn from: two lots of a type that sells
\* above its cost, a type without an active sell order, two lots of a type without
\* an order book.
ItemRows ==
    << [type_id |-> 34, location_id |-> 60003760, quantity |-> Some(1)],
       [type_id |-> 34, location_id |-> 60003760, quantity |-> Some(2)],
       [type_id |-> 35, location_id |-> 60003760, quantity |-> Some(1)],
       [type_id |-> 36, location_id |-> 60003760, quantity |-> Some(1)],
       [type_id |-> 36, location_id |-> 60003760, quantity |-> Some(5)] >>

\* The listings: up to MaxItems different rows, in any order.
ItemListings ==
    LET Picks == {s \in UNION {[1..n -> 1..Len(ItemRows)] : n \in 0..MaxItems} :
                     \A i, j \in DOMAIN s : i # j => s[i] # s[j]}
    IN {[i \in DOMAIN s |-> ItemRows[s[i]]] : s \in Picks}

InitItems ==
    /\ now = 0
    /\ remote \in {[r EXCEPT !.assets = l] :
                      r \in {x \in Remotes : x.esi_up /\ x.sso_up /\ x.assets = <<>>},
                      l \in ItemListings}
    /\ warehouse_manager = "Client"
    /\ esi \in AppTokens
    /\ trading_skills = DefaultSkills
    /\ transactions_cache = None
    /\ orders_cache = None
    /\ trade_data_cache = None
    /\ cache_timestamp = None
    /\ warehouse_cache = None
    /\ warehouse_cache_timestamp = None
    /\ last = NoCall
    /\ threads = NoThreads

NextItems == CallAnalyzeWarehouseHub

SpecItems == InitItems /\ [][NextItems]_vars

\* The place in the asset listing of the row an item of a report was made from.
AssetPosition(item) ==
    CHOOSE k \in 1..Len(remote.assets) :
        /\ remote.assets[k].type_id = item.type_id
        /\ remote.assets[k].quantity = Some(item.quantity)

\* C24: the items of a hub report are in descending order of actual_profit (each
\* item's actual_profit is at least its successor's), and items whose actual_profit
\* is equal stand in the order of the asset listing; every asset has its item.
C24_ItemsByProfitDescending ==
    (/\ last.op = "analyze_warehouse_hub"
     /\ ~last.raised
     /\ last.ret[1].kind = "full")
    => LET items == last.ret[1].items
       IN /\ Len(items) = Len(remote.assets)
          /\ \A i \in 1..(Len(items) - 1) :
                 items[i].actual_profit >= items[i + 1].actual_profit
          /\ \A i, j \in 1..Len(items) :
                 (i < j /\ items[i].actual_profit = items[j].actual_profit)
                     => AssetPosition(items[i]) < AssetPosition(items[j])

\* A report of three items: a loss listed first stands last, and the two lots that
\* tie at 0 stand in the listing's order.
C24_Witness ==
    /\ last.op = "analyze_warehouse_hub"
    /\ ~last.raised
    /\ last.ret[1].kind = "full"
    /\ Len(last.ret[1].items) = 3
    /\ remote.assets[1].type_id = 35
    /\ last.ret[1].items[3].type_id = 35
    /\ last.ret[1].items[3].actual_profit < 0
    /\ last.ret[1].items[1].actual_profit = 0
    /\ last.ret[1].items[2].actual_profit = 0
    /\ last.ret[1].items[1].quantity = 5
    /\ last.ret[1].items[2].quantity = 1

\* C25: every item's actual_profit is (effective_sell_price - actual_effective_cost)
\* * quantity (reported to the hundredth of an ISK) without a floor at zero, so it is
\* negative when the effective sell price is below the actual effective cost, and
\* the hub's total_actual_value is the sum of these values over the items.
C25_ActualProfitUnclamped ==
    (/\ last.op = "analyze_warehouse_hub"
     /\ ~last.raised
     /\ last.ret[1].kind = "full")
    => LET items == last.ret[1].items
           Value(x) == (x.effective_sell_price - x.actual_effective_cost) * x.quantity
       IN /\ \A i \in 1..Len(items) :
                 /\ items[i].actual_profit = Round2(Value(items[i]))
                 /\ items[i].effective_sell_price < items[i].actual_effective_cost
                        => items[i].actual_profit < 0
          /\ last.ret[1].total_actual_value =
                 Round2(SumSeq([i \in 1..Len(items) |-> Value(items[i])]))

\* A report with a gain and a loss: the loss is reported as it is and the hub's total
\* is below the gain.
C25_Witness ==
    /\ last.op = "analyze_warehouse_hub"
    /\ ~last.raised
    /\ last.ret[1].kind = "full"
    /\ Len(last.ret[1].items) = 2
    /\ last.ret[1].items[1].actual_profit > 0
    /\ last.ret[1].items[2].actual_profit < 0
    /\ last.ret[1].items[2].effective_sell_price < last.ret[1].items[2].actual_effective_cost
    /\ last.ret[1].total_actual_value < 0
    /\ last.ret[1].total_actual_value =
           last.ret[1].items[1].actual_profit + last.ret[1].items[2].actual_profit

\* C26: the summary that /api/warehouse returns carries the enhanced_analysis flag
\* of the request it answers, whatever /api/warehouse requests came before, and has
\* cost-basis figures in its items only if that request asked for them.
C26_SummaryReflectsEnhanced ==
    (last.op = "get_warehouse_data" /\ last.ret # None) =>
        LET data == last.ret[1].data
        IN /\ data.summary.enhanced_analysis = last.enhanced
           /\ \A h \in DOMAIN data.warehouse_data :
                  \A i \in 1..Len(data.warehouse_data[h].items) :
                      data.warehouse_data[h].items[i].has_cost_basis => last.enhanced

\* --------------------------------- The OAuth callback (SpecAuth)
\* In this specification the client record has one more field of ESIClient.__init__:
\* state, None until generate_auth_url stores a value.

\* The values secrets.token_urlsafe can return.
StateValues == {"s1", "s2"}

\* generate_auth_url: a fresh random state is stored in the client.
generate_auth_url(e, s) == [e EXCEPT !.state = Some(s)]

\* exchange_code_for_tokens: [raised, esi]. The token endpoint grants tokens for a
\* valid code; _get_character_info then reads the character from the verify and the
\* ESI character endpoints, after the tokens have been assigned.
exchange_code_for_tokens(e, auth_code, state, t, r) ==
    IF state # e.state THEN [raised |-> TRUE, esi |-> e]
    ELSE IF ~r.sso_up \/ auth_code # "valid" THEN [raised |-> TRUE, esi |-> e]
    ELSE LET e1 == [e EXCEPT !.access_token = "granted", !.refresh_token = "granted",
                             !.token_expires = Some(t + EXPIRES_IN)]
         IN IF ~r.esi_up THEN [raised |-> TRUE, esi |-> e1]
            ELSE [raised |-> FALSE, esi |-> [e1 EXCEPT !.character_id = 90000002]]

\* The query strings of a request to /callback: an error parameter or none, a code
\* or none, a state or none.
CallbackQueries ==
    [error : BOOLEAN, code : {None, Some("valid"), Some("invalid")},
     state : {None} \cup {Some(s) : s \in StateValues}]

\* _CallbackHandler.do_GET for a /callback path: [raised, esi].
do_GET(e, q, t, r) ==
    IF q.error \/ q.code = None THEN [raised |-> TRUE, esi |-> e]
    ELSE exchange_code_for_tokens(e, q.code[1], q.state, t, r)

InitAuth ==
    /\ now = 0
    /\ remote \in {r \in Remotes : r.assets = <<>> /\ r.market_down = {}}
    /\ warehouse_manager = "None"
    /\ esi \in {[access_token |-> e.access_token, refresh_token |-> e.refresh_token,
                 character_id |-> e.character_id, token_expires |-> e.token_expires,
                 state |-> None] : e \in StoredTokens}
    /\ trading_skills = DefaultSkills
    /\ transactions_cache = None
    /\ orders_cache = None
    /\ trade_data_cache = None
    /\ cache_timestamp = None
    /\ warehouse_cache = None
    /\ warehouse_cache_timestamp = None
    /\ last = NoCall
    /\ threads = NoThreads

CallGenerateAuthUrl ==
    /\ \E s \in StateValues : esi' = generate_auth_url(esi, s)
    /\ last' = [NoCall EXCEPT !.op = "generate_auth_url"]
    /\ UNCHANGED <<now, remote, warehouse_manager, trading_skills, transactions_cache,
                   orders_cache, Dashboard, threads>>

\* A GET /callback request reaches the handler made for this client.
Callback ==
    /\ \E q \in CallbackQueries :
       \E res \in {do_GET(esi, q, now, remote)} :
           /\ esi' = res.esi
           /\ last' = [NoCall EXCEPT !.op = "callback", !.arg = Some(q),
                                     !.raised = res.raised]
    /\ UNCHANGED <<now, remote, warehouse_manager, trading_skills, transactions_cache,
                   orders_cache, Dashboard, threads>>

NextAuth == CallGenerateAuthUrl \/ Callback

SpecAuth == InitAuth /\ [][NextAuth]_vars

\* C27: a callback stores tokens only if its state parameter is the value that
\* generate_auth_url produced for this client; a callback whose state is missing or
\* different, or that comes before any authorization URL was generated, raises and
\* leaves access_token, refresh_token, the character and token_expires as they were.
C27_CallbackStateChecked ==
    [][(/\ last'.op = "callback"
        /\ last' # last
        /\ \/ esi.state = None
           \/ last'.arg[1].state # esi.state)
       => /\ last'.raised
          /\ esi' = esi]_vars

\* The half of C27 that holds: once an authorization URL has been generated, a
\* callback with another state, or with none, raises and changes nothing.
C27_MismatchRejected ==
    [][(/\ last'.op = "callback"
        /\ last' # last
        /\ esi.state # None
        /\ last'.arg[1].state # esi.state)
       => /\ last'.raised
          /\ esi' = esi]_vars

C29_SkillsFrameAt(data) ==
    LET Named(skill) == data # None /\ \E i \in 1..Len(data[1]) : data[1][i][1] = skill
    IN /\ DOMAIN trading_skills' = DOMAIN trading_skills
       /\ \A skill \in DOMAIN trading_skills :
              /\ ~Named(skill) => trading_skills'[skill] = trading_skills[skill]
              /\ trading_skills'[skill] \in 0..5
       /\ UNCHANGED <<trade_data_cache, cache_timestamp>>

\* The part of C29 about the skills and the scanner's cache alone.
C29_SkillsFrame ==
    [][(last'.op = "update_trading_skills" /\ now' = now)
           => C29_SkillsFrameAt(last'.arg)]_vars

\* C29: update_trading_skills changes nothing but the levels of skill names that are
\* already in trading_skills and the warehouse cache: names that are not skills are
\* ignored (the key set stays), skills the request does not name keep their level,
\* the scanner's cache and its timestamp stay, and so do the client's tokens, the
\* manager's ledger and order caches and the manager object the dashboard uses.
C29_UpdateSkillsFrame ==
    [][(last'.op = "update_trading_skills" /\ now' = now)
           => /\ C29_SkillsFrameAt(last'.arg)
              /\ UNCHANGED <<esi, transactions_cache, orders_cache, remote,
                             warehouse_manager>>]_vars

\* C30: the profit-history body has exactly 7 daily entries whose profits add up to
\* total_7_day_profit, and the six earlier entries are zero; for an authenticated
\* client (the ESI answering) the last entry carries the realized profit of the sales
\* of the trailing 7 days (revenue minus fees minus cost of goods sold, in hundredths
\* of an ISK) and their number; without authentication the last entry is zero too.
C30_ProfitHistory ==
    last.op = "get_profit_history" =>
        LET body == last.ret[1]
            days == body.daily_profits
            InWindow(x) == x.date >= now - 7 * SECONDS_PER_DAY
            rows == SelectSeq(remote.txns, InWindow)
            IsSell(x) == ~x.is_buy
            sells == SelectSeq(rows, IsSell)
            rate == calculate_broker_fee_rate(trading_skills)
                      + calculate_sales_tax_rate(trading_skills)
            basis(x) == calculate_cost_basis([transactions_cache |-> Some(rows)],
                                             x.type_id, x.location_id)
            profit(x) == x.quantity * x.unit_price * 10000
                           - x.quantity * x.unit_price * rate
                           - (IF basis(x) = None THEN 0
                              ELSE x.quantity * basis(x)[1].average_cost * 10000)
        IN /\ Len(days) = 7
           /\ SumSeq([i \in 1..7 |-> days[i].profit]) = body.total_7_day_profit
           /\ \A i \in 1..6 : days[i].profit = 0 /\ days[i].trades = 0
           /\ (is_authenticated(esi) /\ remote.esi_up) =>
                  /\ days[7].profit =
                         Round2(SumSeq([i \in 1..Len(sells) |-> profit(sells[i])]))
                  /\ days[7].trades = Len(sells)
           /\ ~is_authenticated(esi) => (days[7].profit = 0 /\ days[7].trades = 0)

\* The part of C30 about the shape of the body: 7 entries that add up to the total,
\* the six earlier ones zero.
C30_SevenEntries ==
    last.op = "get_profit_history" =>
        LET body == last.ret[1]
            days == body.daily_profits
        IN /\ Len(days) = 7
           /\ SumSeq([i \in 1..7 |-> days[i].profit]) = body.total_7_day_profit
           /\ \A i \in 1..6 : days[i].profit = 0 /\ days[i].trades = 0

====
